---- MODULE Spec2Model ----
(***************************************************************************)
(* Volatility and tail-risk analytics engine of ineqre-obx (ml-service).   *)
(*                                                                         *)
(* One group of variables per modelled operation:                          *)
(*   f*  full_endpoint      (volatility_router.py)                         *)
(*   v*  compute_var        (var_models.py)                                *)
(*   s*  compute_var_series (var_models.py)                                *)
(*   b*  run_backtest       (var_backtest.py)                              *)
(*   j*  detect_jumps       (jump_detection.py)                            *)
(*   g*  fit_garch          (garch.py)                                     *)
(*   r*  fit_regime_model, fit_msgarch (regime.py)                         *)
(* Each operation has its own specification (SpecFull, SpecVar, ...); the  *)
(* variables of the other operations stay at their idle values.            *)
(*                                                                         *)
(* Numbers.  Returns are integers in "ticks" (one tick = one return unit). *)
(* Real-valued results are kept exactly as rationals where the code only   *)
(* compares them, and as fixed-point integers (FP parts per tick, rounded  *)
(* down) where the code reports them.  The GARCH maximum-likelihood fit    *)
(* and the HMM fit are external oracles: their outcome (failure, or the    *)
(* fitted numbers) is a nondeterministic input.                            *)
(***************************************************************************)
EXTENDS Integers, Sequences, FiniteSets, TLC

VARIABLES
    fRows, fOutcome, fResp, fBacktest,
    vReturns, vLevels, vWindow, vFit, vResult,
    sReturns, sConf, sWindow, sT, sHist, sParam, sGarch, sFitAt, sAttempts,
    last_garch_fit, garch_cond_vol, garch_mu, sOut,
    bReturns, bVarSeries, bConf, bResult,
    jReturns, jVolumes, jThreshold, jFloor, jWindow, jResult,
    gLen, gHorizon, gDist, gFit, gResult,
    rK, rCounts, rAmp, rVol, rPerm, rReturns, rHmm, rHmmOk, rGarchOk, rRegime, rMsgarch,
    qEndpoint, qRows, qWindow, qRaise, qResp

fVars == <<fRows, fOutcome, fResp, fBacktest>>
vVars == <<vReturns, vLevels, vWindow, vFit, vResult>>
sVars == <<sReturns, sConf, sWindow, sT, sHist, sParam, sGarch, sFitAt, sAttempts,
           last_garch_fit, garch_cond_vol, garch_mu, sOut>>
bVars == <<bReturns, bVarSeries, bConf, bResult>>
jVars == <<jReturns, jVolumes, jThreshold, jFloor, jWindow, jResult>>
gVars == <<gLen, gHorizon, gDist, gFit, gResult>>
rVars ==
    <<rK, rCounts, rAmp, rVol, rPerm, rReturns, rHmm, rHmmOk, rGarchOk, rRegime, rMsgarch>>
qVars == <<qEndpoint, qRows, qWindow, qRaise, qResp>>
vars == <<fVars, vVars, sVars, bVars, jVars, gVars, rVars, qVars>>

(***************************************************************************)
(* Python values                                                           *)
(***************************************************************************)
None == [null |-> TRUE]

Min(a, b) == IF a <= b THEN a ELSE b
Max(a, b) == IF a >= b THEN a ELSE b
Abs(a) == IF a >= 0 THEN a ELSE -a

\* a cell of a float array
Cell(x) == [nan |-> FALSE, v |-> x]
NaNCell == [nan |-> TRUE, v |-> 0]

\* a[-k:] of Python for k >= 1: the last min(k, len) elements
LastK(a, k) == IF Len(a) > k THEN SubSeq(a, Len(a) - k + 1, Len(a)) ELSE a

\* largest s with s*s <= x (x >= 0), by bisection on [lo, hi)
RECURSIVE IsqrtIn(_, _, _)
IsqrtIn(x, lo, hi) ==
    IF hi - lo <= 1 THEN lo
    ELSE LET mid == (lo + hi) \div 2
         IN  IF mid * mid <= x THEN IsqrtIn(x, mid, hi) ELSE IsqrtIn(x, lo, mid)

Isqrt(x) == IsqrtIn(x, 0, 46341)

(***************************************************************************)
(* full_endpoint: GET /volatility/full/{ticker}                            *)
(***************************************************************************)
Components == {"garch", "msgarch", "var", "jumps", "var_backtest"}

\* rows the price query returns for the ticker
RowsSet == {29, 30, 253, 254, 302, 303, 304}

MinRows == 30
BacktestMinObs == 302
TrimLen == 252

\* fetch_returns: fewer than 30 rows raise ValueError; the first row has no
\* log return and is dropped, so rows rows give rows - 1 returns
fetch_returns(rows) ==
    IF rows < MinRows
    THEN [raised |-> "ValueError", n |-> 0]
    ELSE [raised |-> "no", n |-> rows - 1]

\* What a component hands back when it does not raise.  Arrays are kept as
\* the slice <<first, last>> of 1-based input positions they hold.
ComponentValue(c, n) ==
    CASE c = "garch" ->
             [conditional_vol |-> <<n - Min(TrimLen, n) + 1, n>>]
      [] c = "msgarch" ->
             [states |-> <<1, n>>, state_probs |-> <<1, n>>, dates |-> <<1, n>>]
      [] c = "var" -> [levels |-> {"95", "99"}]
      [] c = "jumps" -> [jumps |-> "list"]
      [] c = "var_backtest" ->
             [results |-> {"historical", "parametric", "garch"}]

ErrMsg(c) == c \o " failed"

\* _safe_run letting the exception of the component through
SafeRunReraise(outcome, value, name) ==
    IF outcome = "ok"
    THEN [raised |-> FALSE, value |-> value]
    ELSE [raised |-> TRUE, value |-> [error |-> ErrMsg(name)]]

\* A call either returns a value or raises.  _safe_run swallows the exception
\* of the component and reports it in the slot.
_safe_run(outcome, value, name) ==
    IF outcome = "ok"
    THEN [raised |-> FALSE, value |-> value]
    ELSE [raised |-> FALSE, value |-> [error |-> ErrMsg(name)]]

SliceLen(s) == s[2] - s[1] + 1
\* a[-k:] on a slice
SliceLast(s, k) == <<s[2] - k + 1, s[2]>>

\* lines 284-293: date alignment of the GARCH slot, trimming of the regime slot
PostGarch(g, n) ==
    IF "conditional_vol" \in DOMAIN g
    THEN [conditional_vol |-> g.conditional_vol,
          dates |-> SliceLast(<<1, n>>, SliceLen(g.conditional_vol))]
    ELSE g

PostRegime(r) ==
    IF "state_probs" \in DOMAIN r /\ SliceLen(r.state_probs) > TrimLen
    THEN [states |-> SliceLast(r.states, TrimLen),
          state_probs |-> SliceLast(r.state_probs, TrimLen),
          dates |-> SliceLast(r.dates, TrimLen)]
    ELSE r

(***************************************************************************)
(* The VaR backtest as var_backtest_endpoint (lines 153-189) and           *)
(* full_endpoint (lines 249-282) run it, at the level of the arrays.       *)
(* Observation i (1-based) of a request has the return ReturnAt(i) and the *)
(* date i; the VaR value a method computes at step t (0-based) is the cell *)
(* holding the method and t.                                               *)
(***************************************************************************)
MinExtraObs == 20
BacktestExtraObs == 50
ChartPoints == 500
BtWindow == 252

ReturnAt(i) == IF i % 2 = 0 THEN i ELSE 0 - i
RouterReturns(n) == [i \in 1..n |-> Cell(ReturnAt(i))]
RouterDates(n) == [i \in 1..n |-> i]

\* a[start::step] of Python, start counted from 0
Stride(a, start, step) ==
    [k \in 1..((Max(Len(a) - start, 0) + step - 1) \div step) |->
        a[start + (k - 1) * step + 1]]
\* a[:k]
FirstK(a, k) == SubSeq(a, 1, Min(k, Len(a)))

Methods == {"historical", "parametric", "garch"}

\* compute_var_series with the loop starting one step late
VarSeriesArraysLate(returns, window) ==
    LET n == Len(returns)
        arr(m) == [i \in 1..n |->
                     IF i - 1 >= window + 1 THEN Cell([method |-> m, t |-> i - 1])
                     ELSE NaNCell]
    IN  IF n < window + MinExtraObs
        THEN [raised |-> TRUE]
        ELSE [raised |-> FALSE,
              actual_returns |-> SubSeq(returns, window + 1, n),
              historical_var |-> SubSeq(arr("historical"), window + 1, n),
              parametric_var |-> SubSeq(arr("parametric"), window + 1, n),
              garch_var |-> SubSeq(arr("garch"), window + 1, n)]

\* compute_var_series (var_models.py:136-187): the length test, the arrays
\* created full of NaN (143-145), written at t = window..n-1 (152-178) and
\* returned from index window on (180-187)
VarSeriesArrays(returns, window) ==
    LET n == Len(returns)
        arr(m) == [i \in 1..n |->
                     IF i - 1 >= window THEN Cell([method |-> m, t |-> i - 1])
                     ELSE NaNCell]
    IN  IF n < window + MinExtraObs
        THEN [raised |-> TRUE]
        ELSE [raised |-> FALSE,
              actual_returns |-> SubSeq(returns, window + 1, n),
              historical_var |-> SubSeq(arr("historical"), window + 1, n),
              parametric_var |-> SubSeq(arr("parametric"), window + 1, n),
              garch_var |-> SubSeq(arr("garch"), window + 1, n)]

MethodVar(vs, m) ==
    IF m = "historical" THEN vs.historical_var
    ELSE IF m = "parametric" THEN vs.parametric_var ELSE vs.garch_var

\* lines 164-165: the pairs run_backtest is given
MaskPairs(actual, var_arr) ==
    {k \in 1..Len(actual) : ~(actual[k].nan \/ var_arr[k].nan)}

\* the chart with dates[:window:step] in place of dates[window::step]
ChartOfHead(vs, dates, window) ==
    LET actual == vs.actual_returns
        step == Max(1, Len(actual) \div ChartPoints)
    IN  [dates |-> FirstK(Stride(FirstK(dates, window), 0, step),
                          Len(Stride(actual, 0, step))),
         actual_returns |-> Stride(actual, 0, step),
         historical_var |-> Stride(vs.historical_var, 0, step),
         parametric_var |-> Stride(vs.parametric_var, 0, step),
         garch_var |-> Stride(vs.garch_var, 0, step)]

\* lines 172-188: the chart, subsampled for response size
ChartOf(vs, dates, window) ==
    LET actual == vs.actual_returns
        step == Max(1, Len(actual) \div ChartPoints)
    IN  [dates |-> FirstK(Stride(dates, window, step), Len(Stride(actual, 0, step))),
         actual_returns |-> Stride(actual, 0, step),
         historical_var |-> Stride(vs.historical_var, 0, step),
         parametric_var |-> Stride(vs.parametric_var, 0, step),
         garch_var |-> Stride(vs.garch_var, 0, step)]

\* lines 156-189 and 251-281: the series, one run_backtest per method on the
\* pairs without NaN, and the chart
RunBacktestBody(returns, dates, window) ==
    LET vs == VarSeriesArrays(returns, window)
    IN  IF vs.raised
        THEN [raised |-> TRUE, detail |-> "Need at least window + 20 observations"]
        ELSE [raised |-> FALSE,
              series |-> vs,
              pairs |-> [m \in Methods |->
                           Cardinality(MaskPairs(vs.actual_returns, MethodVar(vs, m)))],
              chart |-> ChartOf(vs, dates, window)]

\* line 249 with the 20 of compute_var_series in place of 302 - 252
FullStartsBacktestEarly(n) == n >= BtWindow + MinExtraObs

\* line 249
FullStartsBacktest(n) == n >= BacktestMinObs

\* the call of _run_backtest full_endpoint makes, None when it makes none
FullBacktest(rows) ==
    LET df == fetch_returns(rows)
    IN  IF df.raised = "no" /\ FullStartsBacktest(df.n)
        THEN RunBacktestBody(RouterReturns(df.n), RouterDates(df.n), BtWindow)
        ELSE None

\* the body of full_endpoint's try block, after fetch_returns succeeded
FullBody(n, outcome) ==
    LET g == _safe_run(outcome["garch"], ComponentValue("garch", n), "garch")
        r == _safe_run(outcome["msgarch"], ComponentValue("msgarch", n), "msgarch")
        v == _safe_run(outcome["var"], ComponentValue("var", n), "var")
        j == _safe_run(outcome["jumps"], ComponentValue("jumps", n), "jumps")
        b == IF FullStartsBacktest(n)
             THEN _safe_run(outcome["var_backtest"],
                            ComponentValue("var_backtest", n), "var_backtest")
             ELSE [raised |-> FALSE, value |-> None]
    IN  IF g.raised \/ r.raised \/ v.raised \/ j.raised \/ b.raised
        THEN [status |-> 500, detail |-> "Full analysis failed"]
        ELSE [status |-> 200,
              n_observations |-> n,
              garch |-> PostGarch(g.value, n),
              regime |-> PostRegime(r.value),
              var |-> v.value,
              var_backtest |-> b.value,
              jumps |-> j.value]

FullInit ==
    /\ fRows \in RowsSet
    /\ fOutcome \in [Components -> {"ok", "fail"}]
    /\ fResp = None
    /\ fBacktest = None

FullIdle ==
    /\ fRows = 0
    /\ fOutcome = [c \in Components |-> "ok"]
    /\ fResp = None
    /\ fBacktest = None

full_endpoint ==
    /\ fResp = None
    /\ fRows >= 1
    /\ LET df == fetch_returns(fRows)
       IN  fResp' = IF df.raised = "ValueError"
                    THEN [status |-> 404, detail |-> "Insufficient data"]
                    ELSE FullBody(df.n, fOutcome)
    /\ fBacktest' = FullBacktest(fRows)
    /\ UNCHANGED <<fRows, fOutcome>>

(***************************************************************************)
(* Numerics shared by the VaR models                                       *)
(***************************************************************************)
\* fixed-point parts per tick of every reported VaR / ES value
FP == 10 * 100

\* a confidence level c is held in per-mille (0.95 is 950); alpha = 1 - c
Alpha(cl) == 1000 - cl

\* scipy.stats.norm.ppf(alpha) in 1/1000, for the levels of the model
ZMilli(alpha) ==
    CASE alpha = 250 -> -674
      [] alpha = 100 -> -1282
      [] alpha = 50 -> -1645
      [] alpha = 10 -> -2326
      [] alpha = 5 -> -2576

\* scipy.stats.norm.pdf(z) / alpha in 1/1000
PdfOverAlphaMilli(alpha) ==
    CASE alpha = 250 -> 1271
      [] alpha = 100 -> 1755
      [] alpha = 50 -> 2063
      [] alpha = 10 -> 2665
      [] alpha = 5 -> 2892

\* sum of f over lo..hi, halving the range
RECURSIVE SumRange(_, _, _)
SumRange(f, lo, hi) ==
    IF lo > hi THEN 0
    ELSE IF lo = hi THEN f[lo]
    ELSE LET mid == (lo + hi) \div 2
         IN  SumRange(f, lo, mid) + SumRange(f, mid + 1, hi)

SumTo(a, i) == SumRange(a, 1, i)

SumSqTo(a, i) == SumRange([k \in 1..i |-> a[k] * a[k]], 1, i)

\* np.mean in fixed point
MeanFP(a) == (FP * SumTo(a, Len(a))) \div Len(a)

\* np.std(a, ddof=1) in fixed point, Len(a) >= 2:
\* sqrt((n*sum(x^2) - sum(x)^2) / (n*(n-1))), the quotient taken digit by digit
StdFP(a) ==
    LET n == Len(a)
        S == SumTo(a, n)
        V == n * SumSqTo(a, n) - S * S
        D == n * (n - 1)
        r1 == V % D
        r2 == (r1 * 1000) % D
    IN  Isqrt((V \div D) * 1000000 + ((r1 * 1000) \div D) * 1000 + (r2 * 1000) \div D)

\* the k-th smallest element (k in 1..Len(a)) of a
KthSmallest(a, k) ==
    LET vals == {a[i] : i \in 1..Len(a)}
        ok == {v \in vals : Cardinality({i \in 1..Len(a) : a[i] <= v}) >= k}
    IN  CHOOSE v \in ok : \A w \in ok : v <= w

\* np.percentile(a, alpha * 100), linear interpolation between the two order
\* statistics around position (n - 1) * alpha, in fixed point
PercentileFP(a, alpha) ==
    LET n == Len(a)
        pos == (n - 1) * alpha
        lo == pos \div 1000
        rem == pos % 1000
        x0 == KthSmallest(a, lo + 1)
        x1 == IF rem = 0 THEN x0 ELSE KthSmallest(a, lo + 2)
    IN  FP * x0 + (rem * (x1 - x0) * FP) \div 1000

\* -(mu + z * sigma)
NormalVaR(mu, sigma, alpha) == -(mu + (ZMilli(alpha) * sigma) \div 1000)

\* -(mu - sigma * pdf(z) / alpha)
NormalES(mu, sigma, alpha) == -(mu - (sigma * PdfOverAlphaMilli(alpha)) \div 1000)

(***************************************************************************)
(* compute_var                                                             *)
(***************************************************************************)
DefaultWindow == 252
FallbackTail == 252

\* int(cl * 100): truncation of the level to whole per cent
LevelKey(cl) == (cl * 100) \div 1000

\* lines 53-56
HistoricalVaR(recent, alpha) == -PercentileFP(recent, alpha)

HistoricalES(recent, alpha) ==
    LET hist_var == HistoricalVaR(recent, alpha)
        idx == {i \in 1..Len(recent) : FP * recent[i] <= -hist_var}
        sum == SumTo([i \in 1..Len(recent) |->
                          IF i \in idx THEN recent[i] ELSE 0], Len(recent))
    IN  IF Cardinality(idx) > 0
        THEN -((FP * sum) \div Cardinality(idx))
        ELSE hist_var

\* lines 58-64
ParametricVaR(recent, alpha) == NormalVaR(MeanFP(recent), StdFP(recent), alpha)
ParametricES(recent, alpha) == NormalES(MeanFP(recent), StdFP(recent), alpha)

\* _garch_var with the fallback computed from the whole series instead of
\* returns[-252:]
GarchVarFullHistory(returns, alpha, fit) ==
    IF fit.ok
    THEN LET fcast_vol == (Isqrt(fit.variance) * FP) \div 100
             mu == (fit.mu * FP) \div 100
         IN  [raised |-> FALSE,
              var |-> Max(NormalVaR(mu, fcast_vol, alpha), 0),
              es |-> Max(NormalES(mu, fcast_vol, alpha), 0)]
    ELSE [raised |-> FALSE,
          var |-> Max(ParametricVaR(returns, alpha), 0),
          es |-> Max(ParametricES(returns, alpha), 0)]

\* _garch_var: fit is the outcome of arch_model(...).fit() and .forecast() on
\* returns * 100: mu and the 1-step variance are in that scaled space.  A
\* failure of either call is caught and answered from the last 252 returns.
_garch_var(returns, alpha, fit) ==
    IF fit.ok
    THEN LET fcast_vol == (Isqrt(fit.variance) * FP) \div 100
             mu == (fit.mu * FP) \div 100
         IN  [raised |-> FALSE,
              var |-> Max(NormalVaR(mu, fcast_vol, alpha), 0),
              es |-> Max(NormalES(mu, fcast_vol, alpha), 0)]
    ELSE LET last == LastK(returns, FallbackTail)
         IN  [raised |-> FALSE,
              var |-> Max(ParametricVaR(last, alpha), 0),
              es |-> Max(ParametricES(last, alpha), 0)]

\* lines 49-83: the entry written for one level
VarEntry(returns, recent, cl, g) ==
    LET alpha == Alpha(cl)
    IN  [confidence |-> cl,
         historical |-> [var |-> HistoricalVaR(recent, alpha),
                         es |-> HistoricalES(recent, alpha)],
         parametric |-> [var |-> ParametricVaR(recent, alpha),
                         es |-> ParametricES(recent, alpha)],
         garch |-> [var |-> g.var, es |-> g.es]]

\* result[key] = ... for each level in list order: a later level with the same
\* key replaces the earlier entry; an exception leaving _garch_var ends the call
RECURSIVE VarLoop(_, _, _, _, _)
VarLoop(returns, recent, levels, i, fit) ==
    IF i = 0 THEN [raised |-> FALSE, value |-> <<>>]
    ELSE LET before == VarLoop(returns, recent, levels, i - 1, fit)
             key == LevelKey(levels[i])
             g == _garch_var(returns, Alpha(levels[i]), fit)
             entry == VarEntry(returns, recent, levels[i], g)
         IN  IF before.raised \/ g.raised
             THEN [raised |-> TRUE, value |-> <<>>]
             ELSE [raised |-> FALSE,
                   value |-> [k \in (DOMAIN before.value) \cup {key} |->
                                 IF k = key THEN entry ELSE before.value[k]]]

DefaultLevels == <<950, 990>>

compute_var_result(returns, confidence_levels, window, fit) ==
    LET levels == IF confidence_levels.given
                  THEN confidence_levels.list ELSE DefaultLevels
        recent == IF Len(returns) > window THEN LastK(returns, window) ELSE returns
    IN  VarLoop(returns, recent, levels, Len(levels), fit)

\* ---- inputs of the model ----
MinLen == 2
MaxLen == 4
RetVals == {-2, 0, 1}
LongLen == 253
LevelSet == {900, 950, 990, 995}
WindowSet == {2, DefaultWindow}
GarchMuSet == {-300, 100}
GarchVarianceSet == {0, 40000}

SeqsOfLen(S, n) == [1..n -> S]

ShortSeries == UNION {SeqsOfLen(RetVals, n) : n \in MinLen..MaxLen}
\* series longer than the 252-observation tail: a first value, then two
\* alternating values
LongSeries ==
    {[i \in 1..LongLen |-> IF i = 1 THEN h ELSE IF i % 2 = 0 THEN a ELSE b] :
        h \in {-2, 1}, a \in {-2, 1}, b \in {0}}

LevelLists ==
    {<<c>> : c \in LevelSet}
      \cup {l \in SeqsOfLen(LevelSet, 2) : l[1] # l[2]}

LevelArgs == {[given |-> TRUE, list |-> l] : l \in LevelLists}
                \cup {[given |-> FALSE, list |-> <<>>]}

FitOutcomes ==
    {[ok |-> FALSE, failed |-> s, mu |-> 0, variance |-> 0] : s \in {"fit", "forecast"}}
      \cup {[ok |-> TRUE, failed |-> "no", mu |-> m, variance |-> v] :
                m \in GarchMuSet, v \in GarchVarianceSet}

VarInit ==
    /\ vReturns \in ShortSeries \cup LongSeries
    /\ vLevels \in LevelArgs
    /\ vWindow \in WindowSet
    /\ vFit \in FitOutcomes
    /\ vResult = [done |-> FALSE, raised |-> FALSE, value |-> <<>>]

VarIdle ==
    /\ vReturns = <<>>
    /\ vLevels = [given |-> FALSE, list |-> <<>>]
    /\ vWindow = 0
    /\ vFit = [ok |-> FALSE, failed |-> "fit", mu |-> 0, variance |-> 0]
    /\ vResult = [done |-> FALSE, raised |-> FALSE, value |-> <<>>]

compute_var ==
    /\ ~vResult.done
    /\ Len(vReturns) >= MinLen
    /\ LET r == compute_var_result(vReturns, vLevels, vWindow, vFit)
       IN  vResult' = [done |-> TRUE, raised |-> r.raised, value |-> r.value]
    /\ UNCHANGED <<vReturns, vLevels, vWindow, vFit>>

(***************************************************************************)
(* compute_var_series: rolling VaR, one loop iteration per step            *)
(***************************************************************************)
RefitEvery == 20
NoFit == -1

\* returns[t - window + 1:t + 1]: the window moved on by one, so that it
\* holds returns[t]
LookbackThroughT(returns, t, window) == SubSeq(returns, t - window + 2, t + 1)

\* returns[t - window:t] with t counted from 0 as in the code
Lookback(returns, t, window) == SubSeq(returns, t - window + 1, t)

\* ---- inputs of the model ----
MaxExtra == 3
MaxFitFailures == 1
SeriesWindowSet == {2, 3}
SeriesConfSet == {950, 990}
SeriesPatterns == {<<0, 0, 0>>, <<-2, 1, 0>>, <<1, -2, 3>>}
\* arch_model(...).fit() on lookback * 100: mu and the last conditional
\* volatility, in the scaled space
SeriesFitSet == {[mu |-> 0, cond_vol |-> 100], [mu |-> 50, cond_vol |-> 300]}

PatternSeries(pat, n) == [i \in 1..n |-> pat[(i % Len(pat)) + 1]]

SeriesInit ==
    /\ sWindow \in SeriesWindowSet
    /\ sConf \in SeriesConfSet
    /\ \E pat \in SeriesPatterns :
         \E n \in (sWindow + MinExtraObs - 1)..(sWindow + MinExtraObs + MaxExtra) :
            sReturns = PatternSeries(pat, n)
    /\ sT = 0
    /\ sHist = <<>>
    /\ sParam = <<>>
    /\ sGarch = <<>>
    /\ sFitAt = {}
    /\ sAttempts = {}
    /\ last_garch_fit = NoFit
    /\ garch_cond_vol = <<>>
    /\ garch_mu = 0
    /\ sOut = [status |-> "called"]

SeriesIdle ==
    /\ sWindow = 0
    /\ sConf = 0
    /\ sReturns = <<>>
    /\ sT = 0
    /\ sHist = <<>>
    /\ sParam = <<>>
    /\ sGarch = <<>>
    /\ sFitAt = {}
    /\ sAttempts = {}
    /\ last_garch_fit = NoFit
    /\ garch_cond_vol = <<>>
    /\ garch_mu = 0
    /\ sOut = [status |-> "idle"]

\* lines 136-150: the length check and the set-up of the loop
SeriesEnter ==
    /\ sOut.status = "called"
    /\ IF Len(sReturns) < sWindow + MinExtraObs
       THEN /\ sOut' = [status |-> "raised", error |-> "ValueError"]
            /\ sT' = sT
       ELSE /\ sOut' = [status |-> "loop"]
            /\ sT' = sWindow
    /\ UNCHANGED <<sReturns, sConf, sWindow, sHist, sParam, sGarch, sFitAt,
                   sAttempts, last_garch_fit, garch_cond_vol, garch_mu>>

\* arr[t] = v on an array whose unset cells are NaN (absent from the domain)
SetAt(arr, t, v) == [k \in (DOMAIN arr) \cup {t} |-> IF k = t THEN v ELSE arr[k]]

SeriesHistAt(t) == -PercentileFP(Lookback(sReturns, t, sWindow), Alpha(sConf))
SeriesParamAt(t) ==
    NormalVaR(MeanFP(Lookback(sReturns, t, sWindow)),
              StdFP(Lookback(sReturns, t, sWindow)), Alpha(sConf))

\* line 164 with > in place of >=
RefitDueLater(last, t) == last = NoFit \/ (t - last) > RefitEvery

\* line 164
RefitDue(last, t) == last = NoFit \/ (t - last) >= RefitEvery

\* lines 152-161, common to the three branches below
SeriesRolling ==
    /\ sOut.status = "loop"
    /\ sT < Len(sReturns)
    /\ sHist' = SetAt(sHist, sT, SeriesHistAt(sT))
    /\ sParam' = SetAt(sParam, sT, SeriesParamAt(sT))
    /\ sT' = sT + 1
    /\ UNCHANGED <<sReturns, sConf, sWindow, sOut>>

\* lines 164-173: a refit is due and the fit succeeds
SeriesStepFit ==
    /\ SeriesRolling
    /\ RefitDue(last_garch_fit, sT)
    /\ \E res \in SeriesFitSet :
         /\ garch_cond_vol' = <<(res.cond_vol * FP) \div 100>>
         /\ garch_mu' = (res.mu * FP) \div 100
         /\ sGarch' = SetAt(sGarch, sT,
                -(garch_mu' + (ZMilli(Alpha(sConf)) * garch_cond_vol'[1]) \div 1000))
    /\ last_garch_fit' = sT
    /\ sFitAt' = sFitAt \cup {sT}
    /\ sAttempts' = sAttempts \cup {sT}

\* lines 174-175: a refit is due and the fit raises
SeriesStepFitFails ==
    /\ SeriesRolling
    /\ RefitDue(last_garch_fit, sT)
    /\ Cardinality(sAttempts \ sFitAt) < MaxFitFailures
    /\ sGarch' = SetAt(sGarch, sT, SeriesParamAt(sT))
    /\ sAttempts' = sAttempts \cup {sT}
    /\ UNCHANGED <<last_garch_fit, garch_cond_vol, garch_mu, sFitAt>>

\* lines 176-178: between two refits
SeriesStepBetween ==
    /\ SeriesRolling
    /\ ~RefitDue(last_garch_fit, sT)
    /\ sGarch' = SetAt(sGarch, sT, SeriesParamAt(sT))
    /\ UNCHANGED <<last_garch_fit, garch_cond_vol, garch_mu, sFitAt, sAttempts>>

\* arr[window:].tolist(): the cells from window on, NaN where never set
TailFrom(arr, window, n) ==
    [k \in 1..(n - window) |->
        IF (window + k - 1) \in DOMAIN arr
        THEN [nan |-> FALSE, v |-> arr[window + k - 1]]
        ELSE [nan |-> TRUE, v |-> 0]]

\* lines 180-187
SeriesReturn ==
    /\ sOut.status = "loop"
    /\ sT = Len(sReturns)
    /\ sOut' = [status |-> "returned",
                actual_returns |-> SubSeq(sReturns, sWindow + 1, Len(sReturns)),
                historical_var |-> TailFrom(sHist, sWindow, Len(sReturns)),
                parametric_var |-> TailFrom(sParam, sWindow, Len(sReturns)),
                garch_var |-> TailFrom(sGarch, sWindow, Len(sReturns)),
                confidence |-> sConf,
                window |-> sWindow]
    /\ UNCHANGED <<sReturns, sConf, sWindow, sT, sHist, sParam, sGarch, sFitAt,
                   sAttempts, last_garch_fit, garch_cond_vol, garch_mu>>

(***************************************************************************)
(* run_backtest: Kupiec + Christoffersen + traffic light                   *)
(***************************************************************************)
\* np.log(k) in 1/1000000, for the integers the tests take the logarithm of
LnTable ==
    <<0, 693147, 1098612, 1386294, 1609438, 1791759, 1945910, 2079442,
      2197225, 2302585, 2397895, 2484907, 2564949, 2639057, 2708050, 2772589,
      2833213, 2890372, 2944439, 2995732, 3044522, 3091042, 3135494, 3178054,
      3218876, 3258097, 3295837, 3332205, 3367296, 3401197, 3433987, 3465736,
      3496508, 3526361, 3555348, 3583519, 3610918, 3637586, 3663562, 3688879,
      3713572, 3737670, 3761200, 3784190, 3806662, 3828641, 3850148, 3871201,
      3891820, 3912023, 3931826, 3951244, 3970292, 3988984, 4007333, 4025352,
      4043051, 4060443, 4077537, 4094345, 4110874, 4127134, 4143135, 4158883>>

LnMicro(k) ==
    IF k <= Len(LnTable) THEN LnTable[k]
    ELSE CASE k = 100 -> 4605170
           [] k = 250 -> 5521461
           [] k = 750 -> 6620073
           [] k = 900 -> 6802395
           [] k = 950 -> 6856462
           [] k = 990 -> 6897705
           [] k = 1000 -> 6907755

\* np.log(num / den)
LnRatio(num, den) == LnMicro(num) - LnMicro(den)

\* the chi-squared(1) value whose upper tail is 0.05, in 1/1000000:
\* 1 - chi2.cdf(lr, 1) < 0.05 exactly when lr is above it
Chi2Crit == 3841459

\* p_value = 1 - chi2.cdf(lr_stat, df=1) if lr_stat > 0 else 1.0, by class
PValue(lr_stat) ==
    IF lr_stat > 0
    THEN IF lr_stat > Chi2Crit THEN "below 0.05" ELSE "0.05 or more"
    ELSE "1.0"


\* 1 - confidence is a binary float: the sign of its rounding error
\* fl(1 - c) - (1 - c) for the levels of the model (0.75 is exact)
FloatErr(confidence) ==
    CASE confidence = 750 -> 0
      [] confidence = 900 -> -1
      [] confidence = 950 -> 1
      [] confidence = 990 -> 1

\* x <= e * (num / den) in floating point, e.milli the exact value of e in
\* 1/1000 and e.err the sign of its rounding error: the error decides the
\* comparison only when the exact values tie
FloatLE(x, e, num, den) ==
    \/ den * 1000 * x < num * e.milli
    \/ den * 1000 * x = num * e.milli /\ e.err >= 0

\* returns < -var_series, element by element (1 = violation)
ViolationsOf(ret, var) ==
    [i \in 1..Len(ret) |-> IF ret[i] < -var[i] THEN 1 ELSE 0]

CountOnes(v) == Cardinality({i \in 1..Len(v) : v[i] = 1})

\* lines 48-57 of kupiec_test without the trailing "if x > 0 else 0": the
\* direct formula also for x = 0, where p_observed = 0 and the first term is
\* 0 * log(1e-10 / p_expected)
KupiecLRDirect(n, x, alpha) ==
    IF x = 0 \/ x = n
    THEN IF x > 0
         THEN 2 * n * (1 * (LnMicro(1) - LnRatio(alpha, 1000)) + 0)
         ELSE 2 * n * (0 + 1 * (LnMicro(1) - LnRatio(1000 - alpha, 1000)))
    ELSE -2 * (x * LnRatio(alpha, 1000) + (n - x) * LnRatio(1000 - alpha, 1000)
                 - x * LnRatio(x, n) - (n - x) * LnRatio(n - x, n))

\* lines 48-57 of kupiec_test, alpha = 1000 * p_expected
KupiecLR(n, x, alpha) ==
    IF x = 0 \/ x = n
    THEN IF x > 0
         \* p_observed = 1: the second term is 0 * log(1e-10 / (1 - p_expected))
         THEN 2 * n * (1 * (LnMicro(1) - LnRatio(alpha, 1000)) + 0)
         ELSE 0
    ELSE -2 * (x * LnRatio(alpha, 1000) + (n - x) * LnRatio(1000 - alpha, 1000)
                 - x * LnRatio(x, n) - (n - x) * LnRatio(n - x, n))

kupiec_test(ret, var, confidence) ==
    LET violations == ViolationsOf(ret, var)
        n == Len(ret)
        x == CountOnes(violations)
        alpha == Alpha(confidence)
        lr_stat == KupiecLR(n, x, alpha)
    IN  [n_observations |-> n,
         n_violations |-> x,
         \* float(n * p_expected)
         expected_violations |->
             [milli |-> n * alpha, err |-> IF n = 0 THEN 0 ELSE FloatErr(confidence)],
         violation_rate |-> IF n > 0 THEN <<x, n>> ELSE <<0, 1>>,
         expected_rate |-> [milli |-> alpha, err |-> FloatErr(confidence)],
         lr_statistic |-> lr_stat,
         p_value |-> PValue(lr_stat),
         reject_h0 |-> PValue(lr_stat) = "below 0.05"]

\* lines 88-99 with the loop started one step late, at range(2, n)
TransitionsFromThird(v, prev, curr) ==
    Cardinality({t \in 3..Len(v) : v[t - 1] = prev /\ v[t] = curr})

\* lines 88-99: the number of t in 2..n with violations[t-1] = prev and
\* violations[t] = curr
Transitions(v, prev, curr) ==
    Cardinality({t \in 2..Len(v) : v[t - 1] = prev /\ v[t] = curr})

\* line 107: p01 == 0 or p11 == 0 or p01 == 1 or p11 == 1 or p_hat == 0 or
\* p_hat == 1, on the counts (an empty row makes its probability 0)
ChristoffersenDegenerate(n, n00, n01, n10, n11) ==
    \/ n00 + n01 = 0 \/ n01 = 0
    \/ n10 + n11 = 0 \/ n11 = 0
    \/ n00 = 0
    \/ n10 = 0
    \/ n <= 1 \/ n01 + n11 = 0
    \/ n01 + n11 = n - 1

\* lines 106-117 with the test p11 == 1 left out and 0 * log(0) taken as 0
ChristoffersenLRNoP11One(n, n00, n01, n10, n11) ==
    IF \/ n00 + n01 = 0 \/ n01 = 0 \/ n10 + n11 = 0 \/ n11 = 0 \/ n00 = 0
       \/ n <= 1 \/ n01 + n11 = 0 \/ n01 + n11 = n - 1
    THEN 0
    ELSE LET lr_unrestricted ==
                 n00 * LnRatio(n00, n00 + n01) + n01 * LnRatio(n01, n00 + n01)
                   + (IF n10 = 0 THEN 0 ELSE n10 * LnRatio(n10, n10 + n11))
                   + n11 * LnRatio(n11, n10 + n11)
             lr_restricted ==
                 (n00 + n10) * LnRatio(n00 + n10, n - 1)
                   + (n01 + n11) * LnRatio(n01 + n11, n - 1)
         IN  -2 * (lr_restricted - lr_unrestricted)

\* lines 106-117 with the test p01 == 1 left out and 0 * log(0) taken as 0
ChristoffersenLRNoP01One(n, n00, n01, n10, n11) ==
    IF \/ n00 + n01 = 0 \/ n01 = 0 \/ n10 + n11 = 0 \/ n11 = 0 \/ n10 = 0
       \/ n <= 1 \/ n01 + n11 = 0 \/ n01 + n11 = n - 1
    THEN 0
    ELSE LET lr_unrestricted ==
                 (IF n00 = 0 THEN 0 ELSE n00 * LnRatio(n00, n00 + n01))
                   + n01 * LnRatio(n01, n00 + n01)
                   + n10 * LnRatio(n10, n10 + n11) + n11 * LnRatio(n11, n10 + n11)
             lr_restricted ==
                 (n00 + n10) * LnRatio(n00 + n10, n - 1)
                   + (n01 + n11) * LnRatio(n01 + n11, n - 1)
         IN  -2 * (lr_restricted - lr_unrestricted)

\* lines 106-117; 1 - p01 = n00 / (n00 + n01), 1 - p11 = n10 / (n10 + n11),
\* 1 - p_hat = (n00 + n10) / (n - 1)
ChristoffersenLR(n, n00, n01, n10, n11) ==
    IF ChristoffersenDegenerate(n, n00, n01, n10, n11)
    THEN 0
    ELSE LET lr_unrestricted ==
                 n00 * LnRatio(n00, n00 + n01) + n01 * LnRatio(n01, n00 + n01)
                   + n10 * LnRatio(n10, n10 + n11) + n11 * LnRatio(n11, n10 + n11)
             lr_restricted ==
                 (n00 + n10) * LnRatio(n00 + n10, n - 1)
                   + (n01 + n11) * LnRatio(n01 + n11, n - 1)
         IN  -2 * (lr_restricted - lr_unrestricted)

christoffersen_test(ret, var) ==
    LET violations == ViolationsOf(ret, var)
        n == Len(violations)
        n00 == Transitions(violations, 0, 0)
        n01 == Transitions(violations, 0, 1)
        n10 == Transitions(violations, 1, 0)
        n11 == Transitions(violations, 1, 1)
        lr_stat == ChristoffersenLR(n, n00, n01, n10, n11)
    IN  [transition_matrix |-> [n00 |-> n00, n01 |-> n01, n10 |-> n10, n11 |-> n11],
         \* the probabilities as fractions <<numerator, denominator>>
         p01 |-> IF n00 + n01 > 0 THEN <<n01, n00 + n01>> ELSE <<0, 1>>,
         p11 |-> IF n10 + n11 > 0 THEN <<n11, n10 + n11>> ELSE <<0, 1>>,
         lr_statistic |-> lr_stat,
         p_value |-> PValue(lr_stat),
         reject_h0 |-> PValue(lr_stat) = "below 0.05"]

\* lines 164-169 with < in place of <=
TrafficLightStrict(violations, expected) ==
    IF 2 * 1000 * violations < 3 * expected.milli THEN "GREEN"
    ELSE IF 2 * 1000 * violations < 5 * expected.milli THEN "YELLOW"
    ELSE "RED"

\* lines 164-169: violations <= expected * 1.5, violations <= expected * 2.5
TrafficLight(violations, expected) ==
    IF FloatLE(violations, expected, 3, 2) THEN "GREEN"
    ELSE IF FloatLE(violations, expected, 5, 2) THEN "YELLOW"
    ELSE "RED"

\* a[-k:] of Python: the whole array for k = 0
PyLast(a, k) == IF k = 0 THEN a ELSE LastK(a, k)

\* arr[mask]: the cells at the kept positions, in order
RECURSIVE Compress(_, _, _)
Compress(arr, keep, i) ==
    IF i = 0 THEN <<>>
    ELSE IF i \in keep THEN Append(Compress(arr, keep, i - 1), arr[i].v)
    ELSE Compress(arr, keep, i - 1)

run_backtest_result(returns, var_series, confidence) ==
    LET min_len == Min(Len(returns), Len(var_series))
        ret0 == PyLast(returns, min_len)
        var0 == PyLast(var_series, min_len)
    IN  IF Len(ret0) # Len(var0)
        \* arrays of different shape cannot be combined into the mask
        THEN [done |-> TRUE, raised |-> TRUE]
        ELSE LET keep == {i \in 1..Len(ret0) : ~(ret0[i].nan \/ var0[i].nan)}
                 ret == Compress(ret0, keep, Len(ret0))
                 var == Compress(var0, keep, Len(var0))
                 kupiec == kupiec_test(ret, var, confidence)
                 chris == christoffersen_test(ret, var)
             IN  [done |-> TRUE, raised |-> FALSE,
                  confidence |-> confidence,
                  kupiec |-> kupiec,
                  christoffersen |-> chris,
                  traffic_light |-> TrafficLight(kupiec.n_violations,
                                                 kupiec.expected_violations),
                  summary |-> [model_adequate |-> ~kupiec.reject_h0,
                               violations_independent |-> ~chris.reject_h0,
                               overall_pass |-> ~kupiec.reject_h0 /\ ~chris.reject_h0]]

\* ---- inputs of the model ----
MaxObs == 11
MaxModObs == 3
BacktestConfSet == {750, 900, 990}
VarLevel == 2
ViolatingReturn == 0 - (VarLevel + 1)
BoundaryReturn == 0 - VarLevel

BitSeqs(maxn) == UNION {[1..n -> {0, 1}] : n \in 0..maxn}

PlainReturns(bits) ==
    [i \in 1..Len(bits) |-> Cell(IF bits[i] = 1 THEN ViolatingReturn ELSE 0)]
PlainVar(bits) == [i \in 1..Len(bits) |-> Cell(VarLevel)]

\* a pair of arrays with one irregular position: a return exactly at -VaR, a
\* NaN in either array, or one array longer than the other
Irregular(bits, kind, p) ==
    CASE kind = "boundary" ->
             <<[PlainReturns(bits) EXCEPT ![p] = Cell(BoundaryReturn)], PlainVar(bits)>>
      [] kind = "nan_return" ->
             <<[PlainReturns(bits) EXCEPT ![p] = NaNCell], PlainVar(bits)>>
      [] kind = "nan_var" ->
             <<PlainReturns(bits), [PlainVar(bits) EXCEPT ![p] = NaNCell]>>
      [] kind = "longer_returns" ->
             <<<<Cell(ViolatingReturn)>> \o PlainReturns(bits), PlainVar(bits)>>
      [] kind = "longer_var" ->
             <<PlainReturns(bits), <<Cell(VarLevel)>> \o PlainVar(bits)>>

BacktestInputs ==
    {<<PlainReturns(bits), PlainVar(bits)>> : bits \in BitSeqs(MaxObs)}
      \cup UNION {{Irregular(bits, kind, p) : p \in 1..Len(bits),
                     kind \in {"boundary", "nan_return", "nan_var"}} :
                  bits \in BitSeqs(MaxModObs)}
      \cup {Irregular(bits, kind, 0) : bits \in BitSeqs(MaxModObs),
              kind \in {"longer_returns", "longer_var"}}

BacktestInit ==
    /\ \E inp \in BacktestInputs : bReturns = inp[1] /\ bVarSeries = inp[2]
    /\ bConf \in BacktestConfSet
    /\ bResult = [done |-> FALSE, raised |-> FALSE]

BacktestIdle ==
    /\ bReturns = <<>>
    /\ bVarSeries = <<>>
    /\ bConf = 0
    /\ bResult = [done |-> FALSE, raised |-> FALSE]

run_backtest ==
    /\ ~bResult.done
    /\ bConf > 0
    /\ bResult' = run_backtest_result(bReturns, bVarSeries, bConf)
    /\ UNCHANGED <<bReturns, bVarSeries, bConf>>

(***************************************************************************)
(* detect_jumps: rolling z-score jump detection                            *)
(*                                                                         *)
(* Indices t are those of the code (0-based): element t of an array a is   *)
(* a[t + 1].  threshold_sigma is kept in halves (6 = 3.0), returns and     *)
(* min_abs_return in ticks.  A z-score is kept exactly: with c the number  *)
(* of observations of the window, S their sum and Q the sum of their       *)
(* squares, z has the sign of num = c * r - S and z^2 = A / B for          *)
(* A = num^2 * (c - 1) and B = c * (c * Q - S^2).                          *)
(***************************************************************************)
MinPeriods == 20
DefaultRollingWindow == 60

\* Series.rolling(window, min_periods=20) at index t: the window ends at t
\* (inclusive) and starts at max(0, t - window + 1); mean and std are NaN
\* while it holds fewer than min_periods observations
Rolling(x, t, window) ==
    LET lo == Max(0, t - window + 1)
        c == t - lo + 1
    IN  [defined |-> c >= MinPeriods,
         count |-> c,
         sum |-> SumRange(x, lo + 1, t + 1),
         sumsq |-> SumRange([k \in 1..Len(x) |-> x[k] * x[k]], lo + 1, t + 1)]

\* c * (c - 1) * std^2 of the window
VarTerm(st) == st.count * st.sumsq - st.sum * st.sum

\* (value - rolling_mean) / rolling_std
ZScore(value, st) ==
    LET num == st.count * value - st.sum
    IN  [num |-> num,
         A |-> num * num * (st.count - 1),
         B |-> st.count * VarTerm(st)]

ZeroZ == [num |-> 0, A |-> 0, B |-> 1]

\* abs(z) >= k / 2
AbsZAtLeast(z, k) == 4 * z.A >= k * k * z.B

\* lines 121-127 with the bounds 5 and 4 exchanged
ClassifyMagnitudeSwapped(z) ==
    IF AbsZAtLeast(z, 2 * 4) THEN "extreme"
    ELSE IF AbsZAtLeast(z, 2 * 5) THEN "large"
    ELSE "moderate"

\* lines 121-127, on abs(z)
_classify_magnitude(z) ==
    IF AbsZAtLeast(z, 2 * 5) THEN "extreme"
    ELSE IF AbsZAtLeast(z, 2 * 4) THEN "large"
    ELSE "moderate"

\* lines 58-66: np.where(vol_rolling_std > 0, (volumes - mean) / std, 0);
\* a NaN std compares false
VolZScore(volumes, t, window) ==
    LET st == Rolling(volumes, t, window)
    IN  IF st.defined /\ VarTerm(st) > 0 THEN ZScore(volumes[t + 1], st) ELSE ZeroZ

\* line 76 with "or" between the two conditions
IsJumpEither(returns, t, window, threshold, floor) ==
    LET z == ZScore(returns[t + 1], Rolling(returns, t, window))
    IN  AbsZAtLeast(z, threshold) \/ Abs(returns[t + 1]) >= floor

\* line 76: abs(z) >= threshold_sigma and abs_ret >= min_abs_return
IsJump(returns, t, window, threshold, floor) ==
    LET z == ZScore(returns[t + 1], Rolling(returns, t, window))
    IN  AbsZAtLeast(z, threshold) /\ Abs(returns[t + 1]) >= floor

\* lines 77-90: the event of index t; date is dates[t], kept as t
JumpEvent(returns, volumes, t, window) ==
    LET z == ZScore(returns[t + 1], Rolling(returns, t, window))
        base == [date |-> t,
                 return |-> returns[t + 1],
                 return_pct |-> returns[t + 1] * 100,
                 z_score |-> z,
                 direction |-> IF returns[t + 1] > 0 THEN "up" ELSE "down",
                 magnitude |-> _classify_magnitude(z)]
    IN  IF volumes # None /\ Len(volumes) = Len(returns)
        THEN LET vz == VolZScore(volumes, t, window)
             IN  [k \in DOMAIN base \cup {"volume_z", "volume_confirmed"} |->
                     CASE k = "volume_z" -> vz
                       \* vol_zscore[t] > 2.0
                       [] k = "volume_confirmed" -> vz.num > 0 /\ vz.A > 4 * vz.B
                       [] OTHER -> base[k]]
        ELSE base

\* line 69: range(rolling_window, n) starts at rolling_window
ScanFrom(window) == window

\* lines 68-92: the events of the indices t..n-1, in order
RECURSIVE JumpsLoop(_, _, _, _, _, _)
JumpsLoop(returns, volumes, t, window, threshold, floor) ==
    IF t >= Len(returns) THEN <<>>
    ELSE LET st == Rolling(returns, t, window)
             rest == JumpsLoop(returns, volumes, t + 1, window, threshold, floor)
         IN  IF ~st.defined \/ VarTerm(st) = 0 THEN rest
             ELSE IF IsJump(returns, t, window, threshold, floor)
                  THEN <<JumpEvent(returns, volumes, t, window)>> \o rest
                  ELSE rest

SeqSum(q) == SumRange(q, 1, Len(q))
SeqMax(q) == CHOOSE m \in {q[i] : i \in 1..Len(q)} : \A i \in 1..Len(q) : q[i] <= m
SeqMin(q) == CHOOSE m \in {q[i] : i \in 1..Len(q)} : \A i \in 1..Len(q) : q[i] >= m

\* lines 130-155 on returns[rolling_window:]: a fraction <<jump_ss, total_ss>>;
\* the dates are distinct, so the jump days are the indices of the events
_compute_jump_contribution(returns, jumps, window) ==
    LET n == Len(returns)
        tail == IF window >= n THEN <<>> ELSE SubSeq(returns, window + 1, n)
        m == Len(tail)
        sq == [k \in 1..m |-> tail[k] * tail[k]]
        jump_ss == SeqSum([k \in 1..Len(jumps) |-> jumps[k].return * jumps[k].return])
    IN  IF Len(jumps) = 0 \/ m = 0 THEN <<0, 1>>
        ELSE IF m * SeqSum(sq) - SeqSum(tail) * SeqSum(tail) = 0 THEN <<0, 1>>
        ELSE <<jump_ss, SeqSum(sq)>>

detect_jumps_result(returns, volumes, threshold, window, floor) ==
    IF window < MinPeriods
    \* rolling(): min_periods 20 must be <= window
    THEN [done |-> TRUE, raised |-> TRUE]
    ELSE LET n == Len(returns)
             jumps == JumpsLoop(returns, volumes, ScanFrom(window), window,
                                threshold, floor)
             n_jumps == Len(jumps)
             trading_days == n - window
             IsUp(j) == j.direction = "up"
             IsDown(j) == j.direction = "down"
             up_jumps == SelectSeq(jumps, IsUp)
             down_jumps == SelectSeq(jumps, IsDown)
             rets(q) == [k \in 1..Len(q) |-> q[k].return]
         IN  [done |-> TRUE, raised |-> FALSE,
              jumps |-> jumps,
              summary |->
                  [total_jumps |-> n_jumps,
                   up_jumps |-> Len(up_jumps),
                   down_jumps |-> Len(down_jumps),
                   avg_jump_size |->
                       IF n_jumps > 0
                       THEN <<SeqSum([k \in 1..n_jumps |-> Abs(jumps[k].return)]), n_jumps>>
                       ELSE <<0, 1>>,
                   max_up |-> IF Len(up_jumps) > 0 THEN SeqMax(rets(up_jumps)) ELSE 0,
                   max_down |-> IF Len(down_jumps) > 0 THEN SeqMin(rets(down_jumps)) ELSE 0,
                   \* n_jumps / (trading_days / 252.0)
                   intensity_per_year |->
                       IF trading_days > 0 THEN <<n_jumps * 252, trading_days>>
                       ELSE <<0, 1>>,
                   jump_contribution |-> _compute_jump_contribution(returns, jumps, window)],
              threshold_sigma |-> threshold,
              rolling_window |-> window]

\* ---- inputs of the model ----
MaxScan == 3
ShortJumpLen == MinPeriods + 2
JumpWindowSet == {MinPeriods - 10, MinPeriods + 10, DefaultRollingWindow}
ThresholdSet == {2 * 3, 2 * 4}
FloorSet == {0, 3}
SpikeVals == {0 - 7, 0 - 5, 0 - 4, 2, 3, 4, 5, 7}
PairVals == {0 - 7, 2, 4}
Backgrounds == {"flat", "alternating"}

JumpLens(window) == {ShortJumpLen} \cup {window + d : d \in 0..MaxScan}

Background(kind, n) ==
    [i \in 1..n |-> IF kind = "flat" THEN 0 ELSE IF i % 2 = 0 THEN 1 ELSE 0 - 1]

\* the indices a spike is put at: the first index with defined rolling
\* statistics, the last index before rolling_window, rolling_window and the
\* last index
SpikeIndices(window, n) ==
    {MinPeriods - 1, window - 1, window, n - 1} \cap 0..(n - 1)

JumpReturns(window) ==
    UNION {
      {Background(kind, n) : kind \in Backgrounds}
        \cup {[Background(kind, n) EXCEPT ![t + 1] = v] :
                kind \in Backgrounds, t \in SpikeIndices(window, n), v \in SpikeVals}
        \cup {[Background(kind, n) EXCEPT ![p[1] + 1] = v, ![p[2] + 1] = w] :
                kind \in Backgrounds,
                p \in {q \in SpikeIndices(window, n) \X SpikeIndices(window, n) :
                         q[1] < q[2]},
                v \in PairVals, w \in PairVals}
      : n \in JumpLens(window)}

\* no volumes, constant volumes, a volume spike on the last day, or an array
\* one element short (ignored by line 58)
JumpVolumes(n) ==
    {None,
     [i \in 1..n |-> 5],
     [i \in 1..n |-> IF i = n THEN 50 ELSE IF i % 2 = 0 THEN 5 ELSE 4],
     [i \in 1..(n - 1) |-> 5]}

JumpsInit ==
    /\ jWindow \in JumpWindowSet
    /\ jReturns \in JumpReturns(jWindow)
    /\ jVolumes \in JumpVolumes(Len(jReturns))
    /\ jThreshold \in ThresholdSet
    /\ jFloor \in FloorSet
    /\ jResult = [done |-> FALSE, raised |-> FALSE]

JumpsIdle ==
    /\ jReturns = <<>>
    /\ jVolumes = None
    /\ jThreshold = 0
    /\ jFloor = 0
    /\ jWindow = 0
    /\ jResult = [done |-> FALSE, raised |-> FALSE]

detect_jumps ==
    /\ ~jResult.done
    /\ jWindow > 0
    /\ jResult' = detect_jumps_result(jReturns, jVolumes, jThreshold, jWindow, jFloor)
    /\ UNCHANGED <<jReturns, jVolumes, jThreshold, jFloor, jWindow>>

(***************************************************************************)
(* fit_garch: GARCH(1,1) fit, parameters and forecasts                     *)
(*                                                                         *)
(* arch_model(...).fit() is an oracle.  alpha, beta and the persistence    *)
(* are in 1/1000; volatilities of the fit are in 1/100 of a per cent, so   *)
(* that x / 100.0 (per cent to decimal) leaves the integer as it is, in    *)
(* 1/10000; variances are squares of that unit.  The series of the fit     *)
(* (conditional volatility, residuals) are fixed functions of the index.   *)
(***************************************************************************)
AnnualDays == 252
PayloadLen == 252

\* a float that is not NaN
Float(x) == [v |-> x]

\* sqrt(var * 252) / 100.0
AnnualizeVar(var) == Isqrt(var * AnnualDays)

\* vol * sqrt(252) / 100.0
AnnualizeVol(vol) == Isqrt(vol * vol * AnnualDays)

\* line 63 with <= in place of the first <: log(0.5) / log(persistence),
\* which is -0.0 for persistence 0
HalfLifeFromZero(persistence) ==
    IF 0 <= persistence /\ persistence < 1000
    THEN IF persistence = 0 THEN Float(0)
         ELSE Float((693147 * 1000) \div (LnMicro(1000) - LnMicro(persistence)))
    ELSE None

\* lines 63 and 109: log(0.5) / log(persistence) in 1/1000 if
\* 0 < persistence < 1, else NaN, reported as None
HalfLife(persistence) ==
    IF 0 < persistence /\ persistence < 1000
    THEN Float((693147 * 1000) \div (LnMicro(1000) - LnMicro(persistence)))
    ELSE None

\* lines 66-67 and 110: omega / (1 - persistence) if persistence < 1; the
\* square root of a negative variance is NaN; NaN is reported as None
UnconditionalVol(omega, persistence) ==
    IF persistence < 1000
    THEN LET uncond_var == (omega * 1000) \div (1000 - persistence)
         IN  IF omega < 0 THEN None ELSE Float(AnnualizeVar(uncond_var))
    ELSE None

\* res.conditional_volatility and res.resid at observation t (1-based), and
\* the forecast variance of horizon h
CondVolAt(t) == 50 + 50 * (t % 3)
ResidAt(t) == (t % 5) - 2
ForecastVarAt(h) == (100 + 10 * h) * (100 + 10 * h)

\* the number k written in at least width digits, padded with 0, for k < 100
Digits(k, width) ==
    LET d == <<"0", "1", "2", "3", "4", "5", "6", "7", "8", "9">>
        ones == d[(k % 10) + 1]
        tens == d[(k \div 10) + 1]
    IN  IF k >= 10 \/ width >= 2 THEN tens \o ones ELSE ones

\* the names of the columns of forecasts.variance for a horizon: "h." and
\* the horizon number in the width the library writes it in
ForecastIndex(horizon, width) == {"h." \o Digits(k, width) : k \in 1..horizon}

\* lines 83-91: key h<h> for h in [1, 5, 10] with h <= horizon whose column
\* "h.<h>" is in the index
ForecastDict(horizon, width) ==
    LET hs == {h \in {1, 5, 10} :
                 h <= horizon /\ ("h." \o Digits(h, 1)) \in ForecastIndex(horizon, width)}
    IN  [key \in {"h" \o Digits(h, 1) : h \in hs} |->
            LET h == CHOOSE k \in hs : key = "h" \o Digits(k, 1)
            IN  Float(AnnualizeVar(ForecastVarAt(h)))]

\* lines 70-71 without the clipping of line 112: the whole annualized series
CondVolOutFull(nobs) == [t \in 1..nobs |-> AnnualizeVol(CondVolAt(t))]

\* lines 70-71 and 112: the annualized series, its last min(252, len) values
CondVolOut(nobs) ==
    LastK([t \in 1..nobs |-> AnnualizeVol(CondVolAt(t))], Min(PayloadLen, nobs))

\* lines 74-78 and 114: resid / cond_vol in 1/1000, no NaN among them
ResidualsOut(nobs) ==
    LastK([t \in 1..nobs |-> (ResidAt(t) * 100 * 1000) \div CondVolAt(t)],
          Min(PayloadLen, nobs))

\* lines 94-101
DistParams(dist, names) ==
    LET keys == IF dist = "t" THEN (IF "nu" \in names THEN {"df"} ELSE {})
                ELSE IF dist = "skewt"
                     THEN (IF "nu" \in names THEN {"df"} ELSE {})
                            \cup (IF "lambda" \in names THEN {"skew"} ELSE {})
                     ELSE {}
    IN  [k \in keys |-> k]

fit_garch_result(n, horizon, dist, fit) ==
    IF ~fit.ok
    \* am.fit() or res.forecast() raises: nothing catches it
    THEN [done |-> TRUE, raised |-> TRUE]
    ELSE LET persistence == fit.alpha + fit.beta
         IN  [done |-> TRUE, raised |-> FALSE,
              params |-> [omega |-> fit.omega,
                          alpha |-> fit.alpha,
                          beta |-> fit.beta,
                          persistence |-> persistence,
                          half_life |-> HalfLife(persistence),
                          unconditional_vol |-> UnconditionalVol(fit.omega, persistence)],
              conditional_vol |-> CondVolOut(n),
              forecast |-> ForecastDict(horizon, fit.width),
              residuals |-> ResidualsOut(n),
              fit_stats |-> [num_obs |-> n],
              dist_params |-> DistParams(dist, fit.names)]

\* ---- inputs of the model ----
MinGarchLen == 29
MaxOverPayload == 1
GarchLens == {MinGarchLen} \cup ((PayloadLen - 1)..(PayloadLen + MaxOverPayload))
HorizonSet == {1, 4, 5, 9, 10, 12}
GarchAlphaSet == {0, 50, 100}
GarchBetaSet == {0, 900, 950}
GarchOmegaSet == {0 - 400, 0, 400}
DistSet == {"normal", "t", "skewt"}

\* the width the horizon numbers are written in: 1, or the number of digits
\* of the horizon
ForecastWidths(horizon) == IF horizon >= 10 THEN {1, 2} ELSE {1}

GarchFits(horizon, dist) ==
    {[ok |-> FALSE, omega |-> 0, alpha |-> 0, beta |-> 0, width |-> 1, names |-> {}]}
      \cup {[ok |-> TRUE, omega |-> o, alpha |-> a, beta |-> b, width |-> w, names |-> nm] :
              o \in GarchOmegaSet, a \in GarchAlphaSet, b \in GarchBetaSet,
              w \in ForecastWidths(horizon),
              nm \in IF dist = "normal" THEN {{}}
                     ELSE IF dist = "t" THEN {{"nu"}}
                     ELSE {{"nu", "lambda"}, {"lambda"}}}

GarchInit ==
    /\ gLen \in GarchLens
    /\ gHorizon \in HorizonSet
    /\ gDist \in DistSet
    /\ gFit \in GarchFits(gHorizon, gDist)
    /\ gResult = [done |-> FALSE, raised |-> FALSE]

GarchIdle ==
    /\ gLen = 0
    /\ gHorizon = 0
    /\ gDist = "normal"
    /\ gFit = [ok |-> FALSE, omega |-> 0, alpha |-> 0, beta |-> 0, width |-> 1, names |-> {}]
    /\ gResult = [done |-> FALSE, raised |-> FALSE]

fit_garch ==
    /\ ~gResult.done
    /\ gLen > 0
    /\ gResult' = fit_garch_result(gLen, gHorizon, gDist, gFit)
    /\ UNCHANGED <<gLen, gHorizon, gDist, gFit>>

(***************************************************************************)
(* fit_regime_model and fit_msgarch: HMM regimes and per-regime GARCH      *)
(*                                                                         *)
(* GaussianHMM.fit / predict / predict_proba are an oracle.  What it found *)
(* is described by underlying states 0..K-1: state u holds a block of      *)
(* rCounts[u] observations whose returns alternate between +rAmp[u] and    *)
(* -rAmp[u], and has the fitted volatility rVol[u].  The labels the fit    *)
(* reports are a permutation of the underlying states: rPerm[u] is the     *)
(* raw label of u.  The code sees the return vector rReturns and the raw   *)
(* output rHmm only.                                                       *)
(* States are 0-based as in the source; probabilities are in 1/1000 and    *)
(* annualized volatilities in 1/1000 of the unit of the returns.           *)
(***************************************************************************)
GarchMinObs == 50
StdMinObs == 5

States(K) == 0..(K - 1)

\* lines 221-227
_get_state_labels(n) ==
    IF n = 2 THEN [i \in States(2) |-> IF i = 0 THEN "Low Volatility" ELSE "High Volatility"]
    ELSE IF n = 3
         THEN [i \in States(3) |-> IF i = 0 THEN "Low Volatility"
                                   ELSE IF i = 1 THEN "Normal" ELSE "High Volatility"]
         ELSE [i \in States(n) |-> "State " \o Digits(i, 1)]

\* ---- the oracle: what the HMM fit reports for an underlying fit ----
NObs(K, counts) == SumRange(counts, 0, K - 1)

\* observations before the block of state u
Before(counts, u) == SumRange(counts, 0, u - 1)

\* the underlying state of observation t (1-based)
UnderAt(K, counts, t) ==
    CHOOSE u \in States(K) : Before(counts, u) < t /\ t <= Before(counts, u) + counts[u]

\* the return vector
RegimeReturns(K, counts, amp) ==
    LET before == [u \in States(K) |-> Before(counts, u)]
    IN  [t \in 1..NObs(K, counts) |->
            LET u == CHOOSE w \in States(K) : before[w] < t /\ t <= before[w] + counts[w]
            IN  IF (t - before[u]) % 2 = 1 THEN amp[u] ELSE 0 - amp[u]]

\* posterior probability of state v at an observation of state u, and
\* transition probability from u to v, of the underlying fit
OffDiag(d) == IF d = 1 THEN 150 ELSE IF d = 2 THEN 50 ELSE 20
UnderProb(K, u, v) ==
    IF u = v THEN 1000 - SumRange([d \in 1..(K - 1) |-> OffDiag(d)], 1, K - 1)
    ELSE OffDiag((v - u + K) % K)
UnderTrans(K, u, v) ==
    IF u = v THEN 1000 - SumRange([d \in 1..(K - 1) |-> 10 * (u + 1) * d], 1, K - 1)
    ELSE 10 * (u + 1) * ((v - u + K) % K)

Perms(K) == {f \in [States(K) -> States(K)] : \A a, b \in States(K) : f[a] = f[b] => a = b}
PermInv(K, perm, raw) == CHOOSE u \in States(K) : perm[u] = raw

\* model.predict, model.predict_proba, model.transmat_ and
\* sqrt(model.covars_) under the raw labelling perm
HmmOutput(K, counts, vol, perm) ==
    LET n == NObs(K, counts)
        inv == [raw \in States(K) |-> PermInv(K, perm, raw)]
        row == [u \in States(K) |-> [raw \in States(K) |-> UnderProb(K, u, inv[raw])]]
        under == [t \in 1..n |-> UnderAt(K, counts, t)]
    IN  [states |-> [t \in 1..n |-> perm[under[t]]],
         probs |-> [t \in 1..n |-> row[under[t]]],
         transmat |-> [a \in States(K) |-> [b \in States(K) |->
                          UnderTrans(K, inv[a], inv[b])]],
         vols |-> [raw \in States(K) |-> vol[inv[raw]]]]

\* ---- the code ----
\* line 81 left out: the raw labels kept as they are
ArgSortNone(K, v) == [i \in States(K) |-> i]

\* line 81: np.argsort, which keeps the order of equal values for arrays
\* this short: sort_idx[i] is the raw label of rank i
ArgSort(K, v) ==
    [i \in States(K) |->
        CHOOSE a \in States(K) :
            Cardinality({b \in States(K) : v[b] < v[a] \/ (v[b] = v[a] /\ b < a)}) = i]

\* returns[mask]: count, sum and sum of squares of the returns whose state
\* (in the array states) is s
MaskStats(returns, states, s) ==
    LET n == Len(returns)
    IN  [count |-> SumRange([t \in 1..n |-> IF states[t] = s THEN 1 ELSE 0], 1, n),
         sum |-> SumRange([t \in 1..n |-> IF states[t] = s THEN returns[t] ELSE 0], 1, n),
         sumsq |-> SumRange([t \in 1..n |->
                               IF states[t] = s THEN returns[t] * returns[t] ELSE 0], 1, n)]

\* np.std(state_returns) * np.sqrt(252) in 1/1000, count >= 1:
\* sqrt(252 * (n*sum(x^2) - sum(x)^2) / n^2), the quotient taken digit by digit
AnnualStd(m) ==
    LET X == AnnualDays * (m.count * m.sumsq - m.sum * m.sum)
        D == m.count * m.count
        r1 == X % D
        r2 == (r1 * 1000) % D
    IN  Isqrt((X \div D) * 1000000 + ((r1 * 1000) \div D) * 1000 + (r2 * 1000) \div D)

\* lines 94-107
StateStats(returns, hmm, K, sort_idx, trans, labels) ==
    [i \in States(K) |->
        LET m == MaskStats(returns, hmm.states, sort_idx[i])
        IN  [label |-> labels[i],
             mean_return |-> IF m.count > 0
                             THEN [num |-> m.sum * AnnualDays, den |-> m.count]
                             ELSE [num |-> 0, den |-> 1],
             annualized_vol |-> IF m.count > 0 THEN AnnualStd(m) ELSE 0,
             expected_duration_days |-> IF trans[i][i] < 1000
                                        THEN [inf |-> FALSE, num |-> 1000, den |-> 1000 - trans[i][i]]
                                        ELSE [inf |-> TRUE, num |-> 0, den |-> 1],
             frequency |-> [num |-> m.count, den |-> Len(returns)],
             n_observations |-> m.count]]

\* lines 59-134; dates are the observation numbers 1..n
fit_regime_model_result(returns, K, ok, hmm) ==
    IF ~ok
    \* model.fit raises: nothing catches it
    THEN [done |-> TRUE, raised |-> TRUE, hmm_fits |-> 1]
    ELSE LET n == Len(returns)
             sort_idx == ArgSort(K, hmm.vols)
             remap == [old \in States(K) |-> CHOOSE new \in States(K) : sort_idx[new] = old]
             states_sorted == [t \in 1..n |-> remap[hmm.states[t]]]
             probs_sorted == [t \in 1..n |-> [i \in States(K) |-> hmm.probs[t][sort_idx[i]]]]
             trans == [i \in States(K) |-> [j \in States(K) |->
                          hmm.transmat[sort_idx[i]][sort_idx[j]]]]
             state_labels == _get_state_labels(K)
         IN  [done |-> TRUE, raised |-> FALSE, hmm_fits |-> 1,
              n_states |-> K,
              states |-> states_sorted,
              state_probs |-> probs_sorted,
              transition_matrix |-> trans,
              state_stats |-> StateStats(returns, hmm, K, sort_idx, trans, state_labels),
              current_state |-> states_sorted[n],
              current_probs |-> probs_sorted[n],
              state_labels |-> state_labels,
              dates |-> LastK([t \in 1..n |-> t], n)]

\* res.forecast(horizon=1) of the GARCH fit of a regime, annualized (line 185)
RegimeForecastVol(i) == 9000 + 7000 * i

\* lines 160-169: fewer than 50 observations
RegimeFallback(returns, regime, i) ==
    LET m == MaskStats(returns, regime.states, i)
        vol == IF m.count > StdMinObs THEN AnnualStd(m) ELSE 0
    IN  [state |-> i, label |-> regime.state_labels[i], garch_params |-> None,
         fallback_vol |-> Float(vol), forecast_vol |-> vol, garch_fits |-> 0]

\* lines 172-197 without the handler of lines 198-206: a failed fit leaves
\* an entry without fallback
RegimeGarchNoFallback(returns, regime, i, fit_ok) ==
    IF fit_ok
    THEN [state |-> i, label |-> regime.state_labels[i],
          garch_params |-> [omega |-> 20, alpha |-> 50, beta |-> 900, persistence |-> 950],
          fallback_vol |-> None, forecast_vol |-> RegimeForecastVol(i), garch_fits |-> 1]
    ELSE [state |-> i, label |-> regime.state_labels[i], garch_params |-> None,
          fallback_vol |-> None, forecast_vol |-> 0, garch_fits |-> 1]

\* lines 172-206: the fit of a regime of at least 50 observations, or the
\* sample std when it raises; fallback_vol None stands for the missing key
RegimeGarch(returns, regime, i, fit_ok) ==
    IF fit_ok
    THEN [state |-> i, label |-> regime.state_labels[i],
          garch_params |-> [omega |-> 20, alpha |-> 50, beta |-> 900, persistence |-> 950],
          fallback_vol |-> None, forecast_vol |-> RegimeForecastVol(i), garch_fits |-> 1]
    ELSE LET vol == AnnualStd(MaskStats(returns, regime.states, i))
         IN  [state |-> i, label |-> regime.state_labels[i], garch_params |-> None,
              fallback_vol |-> Float(vol), forecast_vol |-> vol, garch_fits |-> 1]

\* lines 209-212 with the probabilities left out of the sum
BlendedVolUnweighted(K, current_probs, regime_garch) ==
    SumRange([i \in States(K) |-> 1000 * regime_garch[i].forecast_vol], 0, K - 1)

\* lines 209-212
BlendedVol(K, current_probs, regime_garch) ==
    SumRange([i \in States(K) |-> current_probs[i] * regime_garch[i].forecast_vol], 0, K - 1)

\* lines 149-218; fits[i] tells whether the GARCH fit of canonical state i
\* succeeds
fit_msgarch_result(returns, K, ok, hmm, fits) ==
    LET regime == fit_regime_model_result(returns, K, ok, hmm)
    IN  IF regime.raised THEN regime
        ELSE LET regime_garch ==
                     [i \in States(K) |->
                         IF MaskStats(returns, regime.states, i).count < GarchMinObs
                         THEN RegimeFallback(returns, regime, i)
                         ELSE RegimeGarch(returns, regime, i, fits[i])]
             IN  [regime EXCEPT !.done = TRUE]
                   @@ [regime_garch |-> regime_garch,
                       blended_forecast_vol |-> BlendedVol(K, regime.current_probs, regime_garch)]

\* ---- inputs of the model ----
\* block lengths around the two thresholds of fit_msgarch; with three states
\* at most one block is long enough for a GARCH fit
CountSet == {0, 1, 2, StdMinObs, StdMinObs + 1, GarchMinObs - 1, GarchMinObs}
CountSet3 == {0, StdMinObs + 1, GarchMinObs}
AmpSet == {1, 2}
VolSet == {1, 2}
\* n_states as the routers allow it, and as a direct caller can pass it
ValidK == {2, 3}
OtherK == {1, 4}

RegimeInputsAll ==
    {[K |-> 2, counts |-> c, amp |-> a, vol |-> v, perm |-> p, hmm_ok |-> TRUE, garch_ok |-> g] :
        c \in {x \in [States(2) -> CountSet] : NObs(2, x) > 0},
        a \in [States(2) -> AmpSet] \ {[u \in States(2) |-> 2]},
        v \in [States(2) -> VolSet] \ {[u \in States(2) |-> 2]},
        p \in Perms(2),
        g \in [States(2) -> BOOLEAN]}
    \cup
    {[K |-> 3, counts |-> c, amp |-> a, vol |-> v, perm |-> p, hmm_ok |-> TRUE, garch_ok |-> g] :
        c \in {x \in [States(3) -> CountSet3] :
                 /\ NObs(3, x) > 0
                 /\ Cardinality({u \in States(3) : x[u] >= GarchMinObs}) <= 1},
        a \in {[u \in States(3) |-> 1 + (u % 2)], [u \in States(3) |-> 2 - (u % 2)]},
        v \in {[u \in States(3) |-> u + 1],
               [u \in States(3) |-> IF u = 0 THEN 2 ELSE 1],
               [u \in States(3) |-> IF u = 2 THEN 2 ELSE 1]},
        p \in Perms(3),
        g \in [States(3) -> BOOLEAN]}
    \cup
    {[K |-> k, counts |-> [u \in States(k) |-> StdMinObs + 1], amp |-> [u \in States(k) |-> 1],
      vol |-> [u \in States(k) |-> u + 1], perm |-> [u \in States(k) |-> u],
      hmm_ok |-> ok, garch_ok |-> [u \in States(k) |-> TRUE]] :
        k \in ValidK \cup OtherK, ok \in BOOLEAN}

\* garch_ok[u]: whether the GARCH fit of the returns of state u succeeds; it
\* is a choice only for the states long enough for the fit to be attempted
RegimeInputs ==
    {in \in RegimeInputsAll :
        \A u \in States(in.K) : in.counts[u] < GarchMinObs => in.garch_ok[u]}

RegimeInit ==
    /\ \E in \in RegimeInputs :
         /\ rK = in.K
         /\ rCounts = in.counts
         /\ rAmp = in.amp
         /\ rVol = in.vol
         /\ rPerm = in.perm
         /\ rReturns = RegimeReturns(in.K, in.counts, in.amp)
         /\ rHmm = HmmOutput(in.K, in.counts, in.vol, in.perm)
         /\ rHmmOk = in.hmm_ok
         /\ rGarchOk = in.garch_ok
    /\ rRegime = [done |-> FALSE, raised |-> FALSE]
    /\ rMsgarch = [done |-> FALSE, raised |-> FALSE]

RegimeIdle ==
    /\ rK = 0
    /\ rCounts = <<>>
    /\ rAmp = <<>>
    /\ rVol = <<>>
    /\ rPerm = <<>>
    /\ rReturns = <<>>
    /\ rHmm = None
    /\ rHmmOk = FALSE
    /\ rGarchOk = <<>>
    /\ rRegime = [done |-> FALSE, raised |-> FALSE]
    /\ rMsgarch = [done |-> FALSE, raised |-> FALSE]

\* the canonical state of the underlying state u, and back
CanonOf(K, vol, perm, u) ==
    CHOOSE i \in States(K) : ArgSort(K, [raw \in States(K) |-> vol[PermInv(K, perm, raw)]])[i] = perm[u]

fit_regime_model ==
    /\ rK > 0
    /\ ~rRegime.done
    /\ rRegime' = fit_regime_model_result(rReturns, rK, rHmmOk, rHmm)
    /\ UNCHANGED <<rK, rCounts, rAmp, rVol, rPerm, rReturns, rHmm, rHmmOk, rGarchOk, rMsgarch>>

\* fit_msgarch writing into the return vector it is given: the first return
\* overwritten in place
fit_msgarch_in_place ==
    /\ rK > 0
    /\ ~rMsgarch.done
    /\ rMsgarch' = fit_msgarch_result(rReturns, rK, rHmmOk, rHmm,
                       [i \in States(rK) |->
                           rGarchOk[CHOOSE u \in States(rK) : CanonOf(rK, rVol, rPerm, u) = i]])
    /\ rReturns' = [rReturns EXCEPT ![1] = 0]
    /\ UNCHANGED <<rK, rCounts, rAmp, rVol, rPerm, rHmm, rHmmOk, rGarchOk, rRegime>>

fit_msgarch ==
    /\ rK > 0
    /\ ~rMsgarch.done
    /\ rMsgarch' = fit_msgarch_result(rReturns, rK, rHmmOk, rHmm,
                       [i \in States(rK) |->
                           rGarchOk[CHOOSE u \in States(rK) : CanonOf(rK, rVol, rPerm, u) = i]])
    /\ UNCHANGED <<rK, rCounts, rAmp, rVol, rPerm, rReturns, rHmm, rHmmOk, rGarchOk, rRegime>>

(***************************************************************************)
(* The routers of one model: garch_endpoint, regime_endpoint,              *)
(* msgarch_endpoint and var_backtest_endpoint.  Each request fetches the   *)
(* returns, calls the component and post-processes the report.  qRaise is  *)
(* the kind of exception a failing fit surfaces as: the routers answer     *)
(* ValueError with 404 and anything else with 500.                         *)
(***************************************************************************)
DefaultHorizon == 10
MinWindow == 60

RouterIdle ==
    /\ qEndpoint = "none"
    /\ qRows = 0
    /\ qWindow = 0
    /\ qRaise = "Exception"
    /\ qResp = None

HttpStatus(kind) == IF kind = "ValueError" THEN 404 ELSE 500

\* lines 42-44 with dates[:n_vol] in place of dates[-n_vol:]
GarchDatesHead(dates, result) == FirstK(dates, Len(result.conditional_vol))

\* lines 42-44 of garch_endpoint
GarchDates(dates, result) == LastK(dates, Len(result.conditional_vol))

\* lines 68-72 with the dates left untrimmed
TrimRegimeKeepDates(result) ==
    IF Len(result.state_probs) > TrimLen
    THEN [result EXCEPT !.state_probs = LastK(@, TrimLen),
                        !.states = LastK(@, TrimLen)]
    ELSE result

\* lines 68-72 of regime_endpoint, 100-104 of msgarch_endpoint
TrimRegime(result) ==
    IF Len(result.state_probs) > TrimLen
    THEN [result EXCEPT !.state_probs = LastK(@, TrimLen),
                        !.states = LastK(@, TrimLen),
                        !.dates = LastK(@, TrimLen)]
    ELSE result

\* line 153 with the 20 of compute_var_series in place of 50
TooShortForSeries(n, window) == n < window + MinExtraObs

\* line 153
TooShortForBacktest(n, window) == n < window + BacktestExtraObs

\* ---- inputs of the model ----
\* returns beyond the window: around the 20 of compute_var_series, the 50 of
\* the router, and the chart steps 1, 2 and 3
RouterExtraSet ==
    {MinExtraObs - 1, MinExtraObs, BacktestExtraObs - 1, BacktestExtraObs,
     BacktestExtraObs + 1, 2 * ChartPoints - 1, 2 * ChartPoints, 2 * ChartPoints + 1,
     3 * ChartPoints - 1, 3 * ChartPoints}
RouterWindowSet == {MinWindow, BtWindow}

\* observations of a regime request: around the trimming length
RouterCounts ==
    {[u \in States(2) |-> IF u = 0 THEN TrimLen - GarchMinObs + d ELSE GarchMinObs] :
        d \in {0 - 1, 0, 1, GarchMinObs}}
      \cup {[u \in States(2) |-> IF u = 0 THEN GarchMinObs ELSE StdMinObs + 1],
            [u \in States(2) |-> IF u = 0 THEN StdMinObs + 1 ELSE TrimLen]}

GarchRequestInit ==
    /\ qEndpoint = "garch"
    /\ gLen \in GarchLens \cup {MinGarchLen - 1}
    /\ gHorizon = DefaultHorizon
    /\ gDist \in DistSet
    /\ gFit \in GarchFits(gHorizon, gDist)
    /\ gResult = [done |-> FALSE, raised |-> FALSE]
    /\ qRows = gLen + 1
    /\ qWindow = 0
    /\ qRaise \in IF gFit.ok THEN {"Exception"} ELSE {"ValueError", "Exception"}
    /\ qResp = None

RegimeRequestInit ==
    /\ qEndpoint \in {"regime", "msgarch"}
    /\ \E c \in RouterCounts, p \in Perms(2), ok \in BOOLEAN, g \in BOOLEAN :
         /\ rK = 2
         /\ rCounts = c
         /\ rAmp = [u \in States(2) |-> u + 1]
         /\ rVol = [u \in States(2) |-> 2 - u]
         /\ rPerm = p
         /\ rReturns = RegimeReturns(2, c, rAmp)
         /\ rHmm = HmmOutput(2, c, rVol, p)
         /\ rHmmOk = ok
         /\ rGarchOk = [u \in States(2) |-> g \/ c[u] < GarchMinObs]
    /\ rRegime = [done |-> FALSE, raised |-> FALSE]
    /\ rMsgarch = [done |-> FALSE, raised |-> FALSE]
    /\ qRows = Len(rReturns) + 1
    /\ qWindow = 0
    /\ qRaise \in IF rHmmOk THEN {"Exception"} ELSE {"ValueError", "Exception"}
    /\ qResp = None

BacktestRequestInit ==
    /\ qEndpoint = "var_backtest"
    /\ qWindow \in RouterWindowSet
    /\ qRows \in {qWindow + d + 1 : d \in RouterExtraSet} \cup {MinRows - 1}
    /\ qRaise = "Exception"
    /\ qResp = None

\* ---- the handlers ----
garch_endpoint ==
    /\ qEndpoint = "garch"
    /\ qResp = None
    /\ LET df == fetch_returns(qRows)
           result == fit_garch_result(df.n, gHorizon, gDist, gFit)
       IN  qResp' =
             IF df.raised = "ValueError"
             THEN [status |-> 404, detail |-> "Insufficient data"]
             ELSE IF result.raised
                  THEN [status |-> HttpStatus(qRaise), detail |-> "GARCH fitting failed"]
                  ELSE [status |-> 200,
                        result |-> result @@ [dates |-> GarchDates(RouterDates(df.n), result)]]
    /\ UNCHANGED <<qEndpoint, qRows, qWindow, qRaise>>

regime_endpoint ==
    /\ qEndpoint = "regime"
    /\ qResp = None
    /\ LET df == fetch_returns(qRows)
           result == fit_regime_model_result(rReturns, rK, rHmmOk, rHmm)
       IN  qResp' =
             IF df.raised = "ValueError"
             THEN [status |-> 404, detail |-> "Insufficient data"]
             ELSE IF result.raised
                  THEN [status |-> HttpStatus(qRaise), detail |-> "Regime model failed"]
                  ELSE [status |-> 200, result |-> TrimRegime(result)]
    /\ UNCHANGED <<qEndpoint, qRows, qWindow, qRaise>>

msgarch_endpoint ==
    /\ qEndpoint = "msgarch"
    /\ qResp = None
    /\ LET df == fetch_returns(qRows)
           result == fit_msgarch_result(rReturns, rK, rHmmOk, rHmm,
                         [i \in States(rK) |->
                             rGarchOk[CHOOSE u \in States(rK) :
                                         CanonOf(rK, rVol, rPerm, u) = i]])
       IN  qResp' =
             IF df.raised = "ValueError"
             THEN [status |-> 404, detail |-> "Insufficient data"]
             ELSE IF result.raised
                  THEN [status |-> HttpStatus(qRaise), detail |-> "MSGARCH failed"]
                  ELSE [status |-> 200, result |-> TrimRegime(result)]
    /\ UNCHANGED <<qEndpoint, qRows, qWindow, qRaise>>

var_backtest_endpoint ==
    /\ qEndpoint = "var_backtest"
    /\ qResp = None
    /\ LET df == fetch_returns(qRows)
       IN  qResp' =
             IF df.raised = "ValueError"
             THEN [status |-> 404, detail |-> "Insufficient data"]
             ELSE IF TooShortForBacktest(df.n, qWindow)
                  THEN [status |-> 404,
                        detail |-> "Need at least window + 50 observations for backtest"]
                  ELSE LET body == RunBacktestBody(RouterReturns(df.n),
                                                   RouterDates(df.n), qWindow)
                       IN  IF body.raised
                           THEN [status |-> 404, detail |-> body.detail]
                           ELSE [status |-> 200, window |-> qWindow, body |-> body]
    /\ UNCHANGED <<qEndpoint, qRows, qWindow, qRaise>>

(***************************************************************************)
(* Specifications                                                          *)
(***************************************************************************)
InitFull == FullInit /\ VarIdle /\ SeriesIdle /\ BacktestIdle /\ JumpsIdle /\ GarchIdle /\ RegimeIdle /\ RouterIdle
NextFull == full_endpoint /\ UNCHANGED <<vVars, sVars, bVars, jVars, gVars, rVars, qVars>>
SpecFull == InitFull /\ [][NextFull]_vars

InitVar == FullIdle /\ VarInit /\ SeriesIdle /\ BacktestIdle /\ JumpsIdle /\ GarchIdle /\ RegimeIdle /\ RouterIdle
NextVar == compute_var /\ UNCHANGED <<fVars, sVars, bVars, jVars, gVars, rVars, qVars>>
SpecVar == InitVar /\ [][NextVar]_vars

InitSeries == FullIdle /\ VarIdle /\ SeriesInit /\ BacktestIdle /\ JumpsIdle /\ GarchIdle /\ RegimeIdle /\ RouterIdle
NextSeries ==
    \/ SeriesEnter /\ UNCHANGED <<fVars, vVars, bVars, jVars, gVars, rVars, qVars>>
    \/ SeriesStepFit /\ UNCHANGED <<fVars, vVars, bVars, jVars, gVars, rVars, qVars>>
    \/ SeriesStepFitFails /\ UNCHANGED <<fVars, vVars, bVars, jVars, gVars, rVars, qVars>>
    \/ SeriesStepBetween /\ UNCHANGED <<fVars, vVars, bVars, jVars, gVars, rVars, qVars>>
    \/ SeriesReturn /\ UNCHANGED <<fVars, vVars, bVars, jVars, gVars, rVars, qVars>>
SpecSeries == InitSeries /\ [][NextSeries]_vars

InitBacktest == FullIdle /\ VarIdle /\ SeriesIdle /\ BacktestInit /\ JumpsIdle /\ GarchIdle /\ RegimeIdle /\ RouterIdle
NextBacktest == run_backtest /\ UNCHANGED <<fVars, vVars, sVars, jVars, gVars, rVars, qVars>>
SpecBacktest == InitBacktest /\ [][NextBacktest]_vars

InitJumps == FullIdle /\ VarIdle /\ SeriesIdle /\ BacktestIdle /\ JumpsInit /\ GarchIdle /\ RegimeIdle /\ RouterIdle
NextJumps == detect_jumps /\ UNCHANGED <<fVars, vVars, sVars, bVars, gVars, rVars, qVars>>
SpecJumps == InitJumps /\ [][NextJumps]_vars

InitGarch ==
    FullIdle /\ VarIdle /\ SeriesIdle /\ BacktestIdle /\ JumpsIdle /\ GarchInit
      /\ RegimeIdle /\ RouterIdle
NextGarch == fit_garch /\ UNCHANGED <<fVars, vVars, sVars, bVars, jVars, rVars, qVars>>
SpecGarch == InitGarch /\ [][NextGarch]_vars

InitRegime ==
    FullIdle /\ VarIdle /\ SeriesIdle /\ BacktestIdle /\ JumpsIdle /\ GarchIdle
      /\ RegimeInit /\ RouterIdle
NextRegime ==
    \/ fit_regime_model /\ UNCHANGED <<fVars, vVars, sVars, bVars, jVars, gVars, qVars>>
    \/ fit_msgarch /\ UNCHANGED <<fVars, vVars, sVars, bVars, jVars, gVars, qVars>>
SpecRegime == InitRegime /\ [][NextRegime]_vars

InitRouter ==
    \/ FullInit /\ RouterIdle /\ VarIdle /\ SeriesIdle /\ BacktestIdle /\ JumpsIdle
         /\ GarchIdle /\ RegimeIdle
    \/ FullIdle /\ GarchRequestInit /\ VarIdle /\ SeriesIdle /\ BacktestIdle /\ JumpsIdle
         /\ RegimeIdle
    \/ FullIdle /\ RegimeRequestInit /\ VarIdle /\ SeriesIdle /\ BacktestIdle /\ JumpsIdle
         /\ GarchIdle
    \/ FullIdle /\ BacktestRequestInit /\ VarIdle /\ SeriesIdle /\ BacktestIdle /\ JumpsIdle
         /\ GarchIdle /\ RegimeIdle
NextRouter ==
    \/ full_endpoint /\ UNCHANGED <<vVars, sVars, bVars, jVars, gVars, rVars, qVars>>
    \/ garch_endpoint /\ UNCHANGED <<fVars, vVars, sVars, bVars, jVars, gVars, rVars>>
    \/ regime_endpoint /\ UNCHANGED <<fVars, vVars, sVars, bVars, jVars, gVars, rVars>>
    \/ msgarch_endpoint /\ UNCHANGED <<fVars, vVars, sVars, bVars, jVars, gVars, rVars>>
    \/ var_backtest_endpoint /\ UNCHANGED <<fVars, vVars, sVars, bVars, jVars, gVars, rVars>>
SpecRouter == InitRouter /\ [][NextRouter]_vars

\* One analysis: every component is called once on the inputs of one ticker,
\* in any order.
AnalysisBits == [i \in 1..MaxObs |-> IF i = 2 \/ i = 5 THEN 1 ELSE 0]
AnalysisInit ==
    /\ FullIdle /\ RouterIdle
    /\ vReturns = [i \in 1..MaxLen |-> IF i = 1 THEN 1 ELSE 0 - 2]
    /\ vLevels = [given |-> FALSE, list |-> <<>>]
    /\ vWindow = DefaultWindow
    /\ vFit = [ok |-> TRUE, failed |-> "no", mu |-> 100, variance |-> 40000]
    /\ VarInit
    /\ sWindow = 2
    /\ sConf = 950
    /\ sReturns = PatternSeries(<<1, 0 - 2, 3>>, sWindow + MinExtraObs)
    /\ SeriesInit
    /\ bReturns = PlainReturns(AnalysisBits)
    /\ bVarSeries = PlainVar(AnalysisBits)
    /\ bConf = 990
    /\ BacktestInit
    /\ jWindow = MinPeriods + 10
    /\ jReturns = Background("alternating", jWindow + 1)
    /\ jThreshold = 2 * 3
    /\ jFloor = 0
    /\ JumpsInit
    /\ gLen = MinGarchLen
    /\ gHorizon = 10
    /\ gDist = "normal"
    /\ gFit = [ok |-> TRUE, omega |-> 400, alpha |-> 50, beta |-> 900, width |-> 2,
               names |-> {}]
    /\ GarchInit
    /\ rK = 2
    /\ rCounts = [u \in States(2) |-> StdMinObs + 1]
    /\ rAmp = [u \in States(2) |-> 1 + u]
    /\ rVol = [u \in States(2) |-> 1 + u]
    /\ rPerm = [u \in States(2) |-> 1 - u]
    /\ rHmmOk = TRUE
    /\ rGarchOk = [u \in States(2) |-> TRUE]
    /\ RegimeInit
InitAnalysis == AnalysisInit
NextAnalysis ==
    \/ compute_var /\ UNCHANGED <<fVars, sVars, bVars, jVars, gVars, rVars, qVars>>
    \/ SeriesEnter /\ UNCHANGED <<fVars, vVars, bVars, jVars, gVars, rVars, qVars>>
    \/ SeriesStepFit /\ UNCHANGED <<fVars, vVars, bVars, jVars, gVars, rVars, qVars>>
    \/ SeriesStepFitFails /\ UNCHANGED <<fVars, vVars, bVars, jVars, gVars, rVars, qVars>>
    \/ SeriesStepBetween /\ UNCHANGED <<fVars, vVars, bVars, jVars, gVars, rVars, qVars>>
    \/ SeriesReturn /\ UNCHANGED <<fVars, vVars, bVars, jVars, gVars, rVars, qVars>>
    \/ run_backtest /\ UNCHANGED <<fVars, vVars, sVars, jVars, gVars, rVars, qVars>>
    \/ detect_jumps /\ UNCHANGED <<fVars, vVars, sVars, bVars, gVars, rVars, qVars>>
    \/ fit_garch /\ UNCHANGED <<fVars, vVars, sVars, bVars, jVars, rVars, qVars>>
    \/ fit_regime_model /\ UNCHANGED <<fVars, vVars, sVars, bVars, jVars, gVars, qVars>>
    \/ fit_msgarch /\ UNCHANGED <<fVars, vVars, sVars, bVars, jVars, gVars, qVars>>
SpecAnalysis == InitAnalysis /\ [][NextAnalysis]_vars



(***************************************************************************)
(* Claims                                                                  *)
(***************************************************************************)
SlotOf(c) == IF c = "msgarch" THEN "regime" ELSE c

\* the component was called: var_backtest only with at least 302 returns
WasRun(c) == c # "var_backtest" \/ fRows - 1 >= BacktestMinObs

VarMethods == {"historical", "parametric", "garch"}

\* C2 (as claimed): every var and es value of every method and level that
\* compute_var returns is >= 0.
C2_AllFloored ==
    (vResult.done /\ ~vResult.raised) =>
        \A k \in DOMAIN vResult.value : \A m \in VarMethods :
            /\ vResult.value[k][m].var >= 0
            /\ vResult.value[k][m].es >= 0

RequestedLevels == IF vLevels.given THEN vLevels.list ELSE DefaultLevels
RecentOf(returns, window) ==
    IF Len(returns) > window
    THEN SubSeq(returns, Len(returns) - window + 1, Len(returns)) ELSE returns

\* C3: when the GARCH fit or its forecast fails, compute_var does not raise;
\* every requested level has an entry under its key, and in every entry
\* returned the garch var and es are the parametric-normal values of the
\* last 252 returns (whatever the window), floored at 0, next to the
\* historical and parametric sub-results of the window.
C3_GarchFallback ==
    (vResult.done /\ ~vFit.ok) =>
        /\ ~vResult.raised
        /\ \A i \in 1..Len(RequestedLevels) :
              LevelKey(RequestedLevels[i]) \in DOMAIN vResult.value
        /\ \A k \in DOMAIN vResult.value :
              LET e == vResult.value[k]
                  alpha == Alpha(e.confidence)
                  last == RecentOf(vReturns, 252)
                  recent == RecentOf(vReturns, vWindow)
                  pv == NormalVaR(MeanFP(last), StdFP(last), alpha)
                  pe == NormalES(MeanFP(last), StdFP(last), alpha)
              IN  /\ e.garch.var = (IF pv > 0 THEN pv ELSE 0)
                  /\ e.garch.es = (IF pe > 0 THEN pe ELSE 0)
                  /\ e.historical.var = -PercentileFP(recent, alpha)
                  /\ e.parametric.var = NormalVaR(MeanFP(recent), StdFP(recent), alpha)
                  /\ {"var", "es"} \subseteq DOMAIN e.historical
                  /\ {"var", "es"} \subseteq DOMAIN e.parametric

\* C3 witness: the fit failed on a series longer than 252 with a shorter
\* window, and a positive fallback VaR came back
C3_Witness ==
    /\ vResult.done
    /\ ~vFit.ok
    /\ Len(vReturns) > FallbackTail
    /\ vWindow < FallbackTail
    /\ \E k \in DOMAIN vResult.value : vResult.value[k].garch.var > 0

\* C5 (as claimed): for a list of distinct levels the result has as many
\* entries as levels, and every level has an entry whose confidence is
\* that level, with the three sub-results.
C5_OneEntryPerLevel ==
    (vResult.done /\ ~vResult.raised /\ vLevels.given) =>
        /\ Cardinality(DOMAIN vResult.value) = Len(vLevels.list)
        /\ \A i \in 1..Len(vLevels.list) :
              \E k \in DOMAIN vResult.value :
                 /\ vResult.value[k].confidence = vLevels.list[i]
                 /\ VarMethods \subseteq DOMAIN vResult.value[k]

\* C4 (as claimed): on a step between two refits (the last successful fit is
\* fewer than 20 steps back) garch_var[t] is computed from that fit's
\* conditional volatility and mean.
C4_BetweenRefitsUsesFit ==
    (sOut.status = "loop" /\ sT > sWindow /\ last_garch_fit # NoFit
       /\ (sT - 1) - last_garch_fit > 0
       /\ (sT - 1) - last_garch_fit < RefitEvery) =>
        sGarch[sT - 1] =
            -(garch_mu + (ZMilli(Alpha(sConf)) * garch_cond_vol[1]) \div 1000)

BacktestDone == bResult.done /\ ~bResult.raised

\* the observations and the violation count are 3 times the expected count:
\* x = 3 * n * (1 - c)
ThreeTimesExpected ==
    1000 * bResult.kupiec.n_violations = 3 * bResult.kupiec.n_observations * Alpha(bConf)

\* the banding of x against expected, expected being the float n * (1 - c)
Banding ==
    LET x == bResult.kupiec.n_violations
        expected == bResult.kupiec.expected_violations
        light == bResult.traffic_light
    IN  /\ light \in {"GREEN", "YELLOW", "RED"}
        /\ light = "GREEN" <=> FloatLE(x, expected, 3, 2)
        /\ light = "YELLOW" <=> (~FloatLE(x, expected, 3, 2) /\ FloatLE(x, expected, 5, 2))
        /\ light = "RED" <=> ~FloatLE(x, expected, 5, 2)

\* C6 (as claimed): exactly one light, GREEN iff x <= 1.5 * expected, YELLOW
\* iff 1.5 * expected < x <= 2.5 * expected, RED iff x > 2.5 * expected, and
\* a violation count of 3 times the expected count is always RED.
C6_TrafficLightAlwaysRed ==
    BacktestDone =>
        /\ Banding
        /\ ThreeTimesExpected => bResult.traffic_light = "RED"

\* C6 (amended): the same banding, and a violation count of 3 times the
\* expected count is RED whenever there is at least one observation; with no
\* observation left the count 0 is 3 times the expected 0 and the light is
\* GREEN.
C6_TrafficLight ==
    BacktestDone =>
        /\ Banding
        /\ (ThreeTimesExpected /\ bResult.kupiec.n_observations >= 1) =>
               bResult.traffic_light = "RED"
        /\ bResult.kupiec.n_observations = 0 => bResult.traffic_light = "GREEN"

\* C6 witness: a non-empty sample whose violation count is 3 times the
\* expected count was given the light RED
C6_Witness ==
    /\ BacktestDone
    /\ bResult.kupiec.n_observations >= 1
    /\ ThreeTimesExpected
    /\ bResult.traffic_light = "RED"

\* the two arrays have one length and no NaN: every observation is tested
BacktestRegular ==
    /\ Len(bReturns) = Len(bVarSeries)
    /\ \A i \in 1..Len(bReturns) : ~bReturns[i].nan /\ ~bVarSeries[i].nan

BacktestViolations ==
    [i \in 1..Len(bReturns) |-> IF bReturns[i].v < -bVarSeries[i].v THEN 1 ELSE 0]

\* there are violations and non-violations, and every violation is next to
\* another one: the violations come in runs of two or more
Clustered(v) ==
    /\ \E i \in 1..Len(v) : v[i] = 1
    /\ \E i \in 1..Len(v) : v[i] = 0
    /\ \A i \in 1..Len(v) :
          v[i] = 1 => \/ i > 1 /\ v[i - 1] = 1
                      \/ i < Len(v) /\ v[i + 1] = 1

\* the violations are one run of k >= 2 that reaches the last observation,
\* after at least two non-violations
RunAtEnd(v) ==
    \E k \in 2..Len(v) :
        /\ Len(v) - k >= 2
        /\ \A i \in 1..Len(v) : v[i] = 1 <=> i > Len(v) - k

\* a / b > c / d for fractions <<numerator, denominator>>
FracGreater(p, q) == p[1] * q[2] > q[1] * p[2]

JumpsDone == jResult.done /\ ~jResult.raised

\* the rolling statistics of index t and the z-score of its return
StatsAt(t) == Rolling(jReturns, t, jWindow)
ZAt(t) == ZScore(jReturns[t + 1], StatsAt(t))

\* the rolling mean and std of index t are defined and the std is not 0
StatsUsable(t) == StatsAt(t).defined /\ VarTerm(StatsAt(t)) # 0

\* |z_t| >= threshold_sigma, and |r_t| >= min_abs_return
ZCondition(t) == 4 * ZAt(t).A >= jThreshold * jThreshold * ZAt(t).B
FloorCondition(t) == Abs(jReturns[t + 1]) >= jFloor

Emitted(t) == \E k \in 1..Len(jResult.jumps) : jResult.jumps[k].date = t

\* C8: every emitted event is at an index with a defined, non-zero rolling
\* std whose z-score (the event's z_score) reaches the threshold and whose
\* absolute return reaches the floor; an index meeting only one of the two
\* conditions is not emitted.
C8_BothConditions ==
    JumpsDone =>
        /\ \A k \in 1..Len(jResult.jumps) :
              LET e == jResult.jumps[k]
              IN  /\ e.date \in 0..(Len(jReturns) - 1)
                  /\ StatsUsable(e.date)
                  /\ e.return = jReturns[e.date + 1]
                  /\ e.z_score = ZAt(e.date)
                  /\ ZCondition(e.date)
                  /\ FloorCondition(e.date)
        /\ \A t \in jWindow..(Len(jReturns) - 1) :
              (StatsUsable(t) /\ (ZCondition(t) # FloorCondition(t))) => ~Emitted(t)

\* C8 witness: with a positive floor one scanned index was emitted, and
\* another that reaches the threshold but not the floor was not
C8_Witness ==
    /\ JumpsDone
    /\ jFloor > 0
    /\ \E t \in jWindow..(Len(jReturns) - 1) : Emitted(t)
    /\ \E t \in jWindow..(Len(jReturns) - 1) :
          StatsUsable(t) /\ ZCondition(t) /\ ~FloorCondition(t) /\ ~Emitted(t)

\* C9 (as claimed): every index with a defined rolling mean and a non-zero
\* rolling std (every index from the 20th observation on) that meets both
\* conditions is emitted.
C9_EveryDefinedIndexScanned ==
    JumpsDone =>
        \A t \in 0..(Len(jReturns) - 1) :
            (StatsUsable(t) /\ ZCondition(t) /\ FloorCondition(t)) => Emitted(t)

\* C10: an event is extreme iff |z| >= 5, large iff 4 <= |z| < 5, moderate
\* iff |z| < 4, z being the z-score of its index; its direction is up iff its
\* return is above 0 and down otherwise.
C10_Classification ==
    JumpsDone =>
        \A k \in 1..Len(jResult.jumps) :
            LET e == jResult.jumps[k]
                z == ZAt(e.date)
                ge5 == z.A >= 25 * z.B
                ge4 == z.A >= 16 * z.B
            IN  /\ e.magnitude \in {"extreme", "large", "moderate"}
                /\ e.magnitude = "extreme" <=> ge5
                /\ e.magnitude = "large" <=> (ge4 /\ ~ge5)
                /\ e.magnitude = "moderate" <=> ~ge4
                /\ e.direction \in {"up", "down"}
                /\ e.direction = "up" <=> jReturns[e.date + 1] > 0
                /\ e.direction = "down" <=> jReturns[e.date + 1] <= 0

\* C10 witness: two events of one call, a large one down and a moderate one
\* up
C10_Witness ==
    /\ JumpsDone
    /\ \E k \in 1..Len(jResult.jumps) :
          jResult.jumps[k].magnitude = "large" /\ jResult.jumps[k].direction = "down"
    /\ \E k \in 1..Len(jResult.jumps) :
          jResult.jumps[k].magnitude = "moderate" /\ jResult.jumps[k].direction = "up"

(***************************************************************************)
(* fit_garch                                                               *)
(***************************************************************************)
GarchDone == gResult.done /\ ~gResult.raised
Persistence == gFit.alpha + gFit.beta
IsFinite(x) == x # None /\ DOMAIN x = {"v"} /\ x.v \in Nat

\* C11: half_life is a finite number exactly when 0 < persistence < 1 and
\* null otherwise; unconditional_vol is null whenever persistence >= 1, and
\* each of the two fields is either null or a finite number.
C11_NullWhenNonStationary ==
    GarchDone =>
        /\ IsFinite(gResult.params.half_life)
             <=> (0 < Persistence /\ Persistence < 1000)
        /\ gResult.params.half_life = None \/ IsFinite(gResult.params.half_life)
        /\ Persistence >= 1000 => gResult.params.unconditional_vol = None
        /\ gResult.params.unconditional_vol = None
             \/ IsFinite(gResult.params.unconditional_vol)

C11_Witness ==
    /\ GarchDone
    /\ Persistence >= 1000
    /\ gResult.params.half_life = None
    /\ gResult.params.unconditional_vol = None

\* C12: the forecast dictionary for horizon H has the key h<k> for k in
\* {1, 5, 10} exactly when k <= H, and no other key, the fit having a
\* variance for every horizon 1..H.
C12_ForecastKeys ==
    GarchDone =>
        DOMAIN gResult.forecast = {"h" \o Digits(k, 1) : k \in {j \in {1, 5, 10} : j <= gHorizon}}

\* C13 as stated: for every input length the returned conditional_vol has
\* as many values as the fit has observations, the last one being the
\* annualized last fitted conditional volatility.
C13_LengthIsNumObs ==
    GarchDone =>
        /\ Len(gResult.conditional_vol) = gResult.fit_stats.num_obs
        /\ gResult.conditional_vol[Len(gResult.conditional_vol)]
             = AnnualizeVol(CondVolAt(gLen))

\* C13 amended: the returned conditional_vol holds the last min(252, num_obs)
\* annualized fitted conditional volatilities, in order, so that its last
\* value is the annualized last fitted conditional volatility.
C13_LastPayloadLen ==
    GarchDone =>
        LET out == gResult.conditional_vol
            nobs == gResult.fit_stats.num_obs
        IN  /\ Len(out) = Min(PayloadLen, nobs)
            /\ \A i \in 1..Len(out) :
                 out[i] = AnnualizeVol(CondVolAt(nobs - Len(out) + i))
            /\ out[Len(out)] = AnnualizeVol(CondVolAt(gLen))

C13_Witness ==
    /\ GarchDone
    /\ gResult.fit_stats.num_obs > PayloadLen
    /\ Len(gResult.conditional_vol) = PayloadLen

(***************************************************************************)
(* fit_regime_model and fit_msgarch                                        *)
(***************************************************************************)
RegimeDone == rRegime.done /\ ~rRegime.raised
MsgarchDone == rMsgarch.done /\ ~rMsgarch.raised
Identity(K) == [u \in States(K) |-> u]
DistinctVols == \A a, b \in States(rK) : rVol[a] = rVol[b] => a = b

\* the report the same underlying fit gives under the identity labelling
IdentityReport ==
    fit_regime_model_result(rReturns, rK, TRUE, HmmOutput(rK, rCounts, rVol, Identity(rK)))

\* canonical state i stands for the underlying state c[i] in every part of
\* the report
ConsistentUnder(c) ==
    /\ \A t \in 1..Len(rReturns) :
         /\ c[rRegime.states[t]] = UnderAt(rK, rCounts, t)
         /\ \A i \in States(rK) :
              rRegime.state_probs[t][i] = UnderProb(rK, UnderAt(rK, rCounts, t), c[i])
    /\ \A i, j \in States(rK) :
         rRegime.transition_matrix[i][j] = UnderTrans(rK, c[i], c[j])
    /\ \A i \in States(rK) :
         /\ rRegime.state_stats[i].n_observations = rCounts[c[i]]
         /\ rRegime.state_stats[i].label = rRegime.state_labels[i]
         /\ rRegime.state_labels[i] = _get_state_labels(rK)[i]
    /\ \A i, j \in States(rK) : i < j => rVol[c[i]] <= rVol[c[j]]

\* C14 as stated: for every raw labelling of K in {2,3} states the report is
\* the one of the identity labelling (independent of the raw labelling).
C14_IndependentOfLabelling ==
    (RegimeDone /\ rK \in ValidK) => rRegime = IdentityReport

\* C14 amended: one permutation, ascending in fitted volatility, is applied
\* to assignments, probability columns, transition rows and columns, stats
\* and labels; the report is independent of the raw labelling when the
\* fitted volatilities are pairwise distinct.
C14_OnePermutation ==
    (RegimeDone /\ rK \in ValidK) =>
        /\ \E c \in Perms(rK) : ConsistentUnder(c)
        /\ DistinctVols => rRegime = IdentityReport

C14_Witness ==
    /\ RegimeDone
    /\ rK = 3
    /\ rPerm # Identity(3)
    /\ DistinctVols
    /\ \A u \in States(3) : rCounts[u] > 0
    /\ rCounts[0] # rCounts[2]
    /\ rRegime = IdentityReport

\* C15: the states of the report are in ascending order of realized
\* volatility: state_stats[i].annualized_vol, the volatility of the returns
\* assigned to state i, is non-decreasing in i.
C15_RealizedVolAscending ==
    RegimeDone =>
        \A i, j \in States(rK) :
            i < j => rRegime.state_stats[i].annualized_vol
                       <= rRegime.state_stats[j].annualized_vol

ForecastVols == {rMsgarch.regime_garch[i].forecast_vol : i \in States(rK)}
ValidProbs(p) ==
    /\ \A i \in DOMAIN p : p[i] >= 0
    /\ SumRange(p, 0, rK - 1) = 1000

\* C16: the blended forecast is the sum over the states of current_probs[i]
\* times regime_garch[i].forecast_vol and, for a valid probability vector,
\* lies between the smallest and the largest per-regime forecast vol
\* (probabilities in 1/1000, hence the factor).
C16_BlendedIsConvex ==
    MsgarchDone =>
        /\ rMsgarch.blended_forecast_vol
             = SumRange([i \in States(rK) |->
                           rMsgarch.current_probs[i] * rMsgarch.regime_garch[i].forecast_vol],
                        0, rK - 1)
        /\ ValidProbs(rMsgarch.current_probs) =>
             /\ \E lo \in ForecastVols :
                  /\ \A v \in ForecastVols : lo <= v
                  /\ 1000 * lo <= rMsgarch.blended_forecast_vol
             /\ \E hi \in ForecastVols :
                  /\ \A v \in ForecastVols : v <= hi
                  /\ rMsgarch.blended_forecast_vol <= 1000 * hi

C16_Witness ==
    /\ MsgarchDone
    /\ rK = 3
    /\ ValidProbs(rMsgarch.current_probs)
    /\ Cardinality(ForecastVols) = 3
    /\ \E lo, hi \in ForecastVols :
         /\ 1000 * lo < rMsgarch.blended_forecast_vol
         /\ rMsgarch.blended_forecast_vol < 1000 * hi
         /\ \A v \in ForecastVols : lo <= v /\ v <= hi

\* the returns assigned to canonical state i in the report of fit_msgarch
AssignedTo(i) == MaskStats(rReturns, rMsgarch.states, i)

\* C17: for every regime with 1 to 49 assigned observations no GARCH fit is
\* attempted, garch_params is null and forecast_vol and fallback_vol are
\* the annualized sample standard deviation of the regime's returns.
C17_SmallRegimeUsesStd ==
    MsgarchDone =>
        \A i \in States(rK) :
            (1 <= AssignedTo(i).count /\ AssignedTo(i).count < GarchMinObs) =>
                /\ rMsgarch.regime_garch[i].garch_fits = 0
                /\ rMsgarch.regime_garch[i].garch_params = None
                /\ rMsgarch.regime_garch[i].forecast_vol = AnnualStd(AssignedTo(i))
                /\ rMsgarch.regime_garch[i].fallback_vol = Float(AnnualStd(AssignedTo(i)))

\* whether the GARCH fit of the returns of canonical state i succeeds
FitOkOf(i) == rGarchOk[CHOOSE u \in States(rK) : CanonOf(rK, rVol, rPerm, u) = i]
FitFailed(i) == AssignedTo(i).count >= GarchMinObs /\ ~FitOkOf(i)

\* the report of fit_msgarch had every GARCH fit succeeded
AllFitsOkReport ==
    fit_msgarch_result(rReturns, rK, TRUE, rHmm, [i \in States(rK) |-> TRUE])

\* C18: a failed GARCH fit of a regime of at least 50 observations does not
\* abort fit_msgarch: that entry has garch_params null and forecast_vol =
\* fallback_vol = annualized std of its returns, the other entries are what
\* they are without the failure, regime_garch has one entry per state, entry
\* i for state i, and the blended forecast is returned.
C18_FitFailureDegrades ==
    (rMsgarch.done /\ rHmmOk) =>
        /\ ~rMsgarch.raised
        /\ DOMAIN rMsgarch.regime_garch = States(rK)
        /\ "blended_forecast_vol" \in DOMAIN rMsgarch
        /\ LET unfailed == AllFitsOkReport.regime_garch
               failed == [i \in States(rK) |-> FitFailed(i)]
           IN  \A i \in States(rK) :
                   /\ rMsgarch.regime_garch[i].state = i
                   /\ failed[i] =>
                        /\ rMsgarch.regime_garch[i].garch_params = None
                        /\ rMsgarch.regime_garch[i].forecast_vol = AnnualStd(AssignedTo(i))
                        /\ rMsgarch.regime_garch[i].fallback_vol
                             = Float(AnnualStd(AssignedTo(i)))
                   /\ ~failed[i] => rMsgarch.regime_garch[i] = unfailed[i]

C18_Witness ==
    /\ rMsgarch.done
    /\ rHmmOk
    /\ \E i, j \in States(rK) :
         /\ FitFailed(i)
         /\ rMsgarch.regime_garch[i].forecast_vol > 0
         /\ AssignedTo(j).count >= GarchMinObs
         /\ rMsgarch.regime_garch[j].garch_params # None
    /\ rMsgarch.blended_forecast_vol > 0

\* C19: a call of fit_regime_model or fit_msgarch with K outside {2,3} ends
\* in a rejection, no HMM fit having been started.
C19_InvalidKRejected ==
    /\ (rRegime.done /\ rK \notin ValidK) =>
         rRegime.raised /\ rRegime.hmm_fits = 0
    /\ (rMsgarch.done /\ rK \notin ValidK) =>
         rMsgarch.raised /\ rMsgarch.hmm_fits = 0

(***************************************************************************)
(* full_endpoint: insufficient data                                        *)
(***************************************************************************)
\* C20: a ticker with fewer observations than a component's minimum (30 for
\* GARCH, 100 for the HMM regime model, 302 for the VaR backtest) gets no
\* fit of that component and no valid-looking result in its place: below
\* 30 rows the request ends in the client error, below 100 the regime slot
\* holds no fitted report, below 302 the backtest slot holds no results.
C20_InsufficientDataReported ==
    fResp # None =>
        /\ fRows < MinRows => fResp.status = 404
        /\ (MinRows <= fRows /\ fRows < 100) =>
             (fResp.regime = None \/ "states" \notin DOMAIN fResp.regime)
        /\ (MinRows <= fRows /\ fRows - 1 < BacktestMinObs) =>
             (fResp.var_backtest = None \/ "results" \notin DOMAIN fResp.var_backtest)

(***************************************************************************)
(* run_backtest: degenerate samples and counts                             *)
(***************************************************************************)
\* the violation indicators of the pairs run_backtest keeps, in order
KeptViolations ==
    LET min_len == Min(Len(bReturns), Len(bVarSeries))
        ret0 == PyLast(bReturns, min_len)
        var0 == PyLast(bVarSeries, min_len)
        keep == {i \in 1..Len(ret0) : ~(ret0[i].nan \/ var0[i].nan)}
    IN  [k \in 1..Cardinality(keep) |->
            LET i == CHOOSE j \in keep : Cardinality({h \in keep : h < j}) = k - 1
            IN  IF ret0[i].v < -var0[i].v THEN 1 ELSE 0]

\* LR = 2n[p_obs*ln(max(p_obs,eps)/p_exp) + (1-p_obs)*ln(max(1-p_obs,eps)/(1-p_exp))]
\* for x = 0 (p_obs = 0) and x = n (p_obs = 1), in 1/1000000
DirectLR(n, x, alpha) ==
    IF x = 0 THEN 2 * n * LnRatio(1000, 1000 - alpha)
    ELSE 2 * n * LnRatio(1000, alpha)

\* C23: for n > 0 both x = 0 and x = n get the statistic of the direct
\* formula, which is strictly positive, and the p-value is 1.0 only when
\* LR <= 0.
C23_DegenerateByDirectFormula ==
    BacktestDone =>
        LET k == bResult.kupiec
        IN  /\ (k.n_observations > 0
                  /\ (k.n_violations = 0 \/ k.n_violations = k.n_observations)) =>
                 /\ k.lr_statistic = DirectLR(k.n_observations, k.n_violations, Alpha(bConf))
                 /\ k.lr_statistic > 0
            /\ k.p_value = "1.0" <=> k.lr_statistic <= 0

IsZero(p) == p[1] = 0
IsOne(p) == p[1] = p[2]
\* p_hat = (n01 + n11) / (n - 1) if n > 1 else 0
PHat ==
    LET m == bResult.christoffersen.transition_matrix
    IN  IF bResult.kupiec.n_observations > 1
        THEN <<m.n01 + m.n11, bResult.kupiec.n_observations - 1>>
        ELSE <<0, 1>>
AnyDegenerate ==
    \E p \in {bResult.christoffersen.p01, bResult.christoffersen.p11, PHat} :
        IsZero(p) \/ IsOne(p)

\* C24: when p01, p11 or the unconditional violation probability is 0 or 1
\* (an empty row of the count matrix makes its probability 0), the LR
\* statistic is 0, the p-value 1.0 and reject_h0 False; the ratio is
\* evaluated only when all three lie strictly between 0 and 1.
C24_DegenerateIsZero ==
    BacktestDone =>
        /\ AnyDegenerate =>
             /\ bResult.christoffersen.lr_statistic = 0
             /\ bResult.christoffersen.p_value = "1.0"
             /\ ~bResult.christoffersen.reject_h0
        /\ ~AnyDegenerate =>
             LET m == bResult.christoffersen.transition_matrix
             IN  bResult.christoffersen.lr_statistic
                   = ChristoffersenLR(bResult.kupiec.n_observations,
                                      m.n00, m.n01, m.n10, m.n11)

\* p01 = 1 is the only degenerate probability: 0 -> 1 always, 1 -> 0 and
\* 1 -> 1 both seen
C24_Witness ==
    /\ BacktestDone
    /\ IsOne(bResult.christoffersen.p01)
    /\ ~IsZero(bResult.christoffersen.p11) /\ ~IsOne(bResult.christoffersen.p11)
    /\ ~IsZero(PHat) /\ ~IsOne(PHat)
    /\ bResult.christoffersen.lr_statistic = 0
    /\ bResult.christoffersen.p_value = "1.0"

\* C28: both tests count the same indicators: for n >= 1 the four
\* transition counts sum to n - 1 and Kupiec's n_violations is n01 + n11
\* plus 1 if the first observation is a violation; for n <= 1 the four
\* counts are 0.
C28_SameIndicators ==
    BacktestDone =>
        LET m == bResult.christoffersen.transition_matrix
            n == bResult.kupiec.n_observations
            v == KeptViolations
        IN  /\ n = Len(v)
            /\ n >= 1 =>
                 /\ m.n00 + m.n01 + m.n10 + m.n11 = n - 1
                 /\ bResult.kupiec.n_violations = m.n01 + m.n11 + v[1]
            /\ n <= 1 => m.n00 = 0 /\ m.n01 = 0 /\ m.n10 = 0 /\ m.n11 = 0

C28_Witness ==
    /\ BacktestDone
    /\ bResult.kupiec.n_observations >= 3
    /\ KeptViolations[1] = 1
    /\ bResult.christoffersen.transition_matrix.n11 >= 1
    /\ bResult.christoffersen.transition_matrix.n01 >= 1
    /\ bResult.kupiec.n_violations
         = bResult.christoffersen.transition_matrix.n01
             + bResult.christoffersen.transition_matrix.n11 + 1

StepsDone == IF sOut.status \in {"loop", "returned"} THEN sWindow..(sT - 1) ELSE {}
FitsBefore(t) == {u \in sFitAt : u < t}

\* C25: a GARCH fit is attempted at step t exactly when no fit has succeeded
\* before t or the last success is at least 20 steps back; the first attempt
\* is at t = window, successes are at least 20 steps apart, after a failed
\* attempt the next step attempts again, and on a failed attempt
\* garch_var[t] = parametric_var[t].
C25_RefitClock ==
    /\ \A t \in StepsDone :
         t \in sAttempts <=>
             \/ FitsBefore(t) = {}
             \/ \E u \in FitsBefore(t) :
                  /\ \A w \in FitsBefore(t) : w <= u
                  /\ t - u >= RefitEvery
    /\ StepsDone # {} => sWindow \in sAttempts
    /\ \A u, w \in sFitAt : u < w => w - u >= RefitEvery
    /\ \A t \in sAttempts \ sFitAt :
         /\ sGarch[t] = sParam[t]
         /\ (t + 1) \in StepsDone => (t + 1) \in sAttempts
    /\ sFitAt \subseteq sAttempts /\ sAttempts \subseteq StepsDone

\* a failed attempt, the attempt repeated with success at the next step, and
\* the next success 20 steps after that one
C25_Witness ==
    \E t \in sAttempts \ sFitAt :
        /\ (t + 1) \in sFitAt
        /\ (t + 1 + RefitEvery) \in sFitAt
        /\ sGarch[t] = sParam[t]

\* return vectors that agree with sReturns on all indices < t (counted from
\* 0): the values from t on shifted, or all replaced by one value
AgreeBefore(t) ==
    {[i \in 1..Len(sReturns) |-> IF i <= t THEN sReturns[i] ELSE sReturns[i] + d] :
        d \in {0 - 3, 1}}
      \cup {[i \in 1..Len(sReturns) |-> IF i <= t THEN sReturns[i] ELSE 7]}
HistOf(r, t) == -PercentileFP(Lookback(r, t, sWindow), Alpha(sConf))
ParamOf(r, t) ==
    NormalVaR(MeanFP(Lookback(r, t, sWindow)), StdFP(Lookback(r, t, sWindow)),
              Alpha(sConf))
FitValues ==
    {-((res.mu * FP) \div 100
        + (ZMilli(Alpha(sConf)) * ((res.cond_vol * FP) \div 100)) \div 1000) :
        res \in SeriesFitSet}

RegimeAnswered == qEndpoint \in {"regime", "msgarch"} /\ qResp # None /\ qResp.status = 200
\* the report before the router trims it
Untrimmed ==
    IF qEndpoint = "regime"
    THEN fit_regime_model_result(rReturns, rK, rHmmOk, rHmm)
    ELSE fit_msgarch_result(rReturns, rK, rHmmOk, rHmm,
             [i \in States(rK) |->
                 rGarchOk[CHOOSE u \in States(rK) : CanonOf(rK, rVol, rPerm, u) = i]])
IsTailOf(short, long, len) ==
    /\ Len(short) = len
    /\ \A k \in 1..len : short[k] = long[Len(long) - len + k]
FullRegimeAnswered ==
    /\ fResp # None
    /\ fResp.status = 200
    /\ "states" \in DOMAIN fResp.regime

\* C30: after the trimming of the regime, msgarch and full endpoints, states,
\* state_probs and dates are the last min(T, 252) elements of the untrimmed
\* arrays, current_state is the last element of states and current_probs the
\* last row of state_probs; a report of at most 252 observations is unchanged.
C30_TrimKeepsTail ==
    /\ RegimeAnswered =>
         LET full == Untrimmed
             res == qResp.result
             T == Len(full.states)
             len == Min(T, TrimLen)
         IN  /\ IsTailOf(res.states, full.states, len)
             /\ IsTailOf(res.state_probs, full.state_probs, len)
             /\ IsTailOf(res.dates, full.dates, len)
             /\ res.current_state = res.states[len]
             /\ res.current_probs = res.state_probs[len]
             /\ T <= TrimLen => res = full
    /\ FullRegimeAnswered =>
         LET T == fRows - 1
             tail == <<T - Min(T, TrimLen) + 1, T>>
         IN  /\ fResp.regime.states = tail
             /\ fResp.regime.state_probs = tail
             /\ fResp.regime.dates = tail
             /\ T <= TrimLen => fResp.regime = ComponentValue("msgarch", T)

\* a trimmed msgarch report whose kept states are not all the same
C30_Witness ==
    /\ RegimeAnswered
    /\ qEndpoint = "msgarch"
    /\ Len(rReturns) > TrimLen
    /\ Len(qResp.result.states) = TrimLen
    /\ qResp.result.states[1] # qResp.result.states[TrimLen]
    /\ qResp.result.dates[1] = Len(rReturns) - TrimLen + 1

ChartAnswered == qEndpoint = "var_backtest" /\ qResp # None /\ qResp.status = 200
\* the chart holds, at element k, the date, the return and the three VaR
\* values of observation window + (k - 1) * step (0-based)
ChartAligned(chart, n, window) ==
    LET step == Max(1, (n - window) \div ChartPoints)
        len == Len(chart.dates)
    IN  /\ Len(chart.actual_returns) = len
        /\ Len(chart.historical_var) = len
        /\ Len(chart.parametric_var) = len
        /\ Len(chart.garch_var) = len
        /\ \A k \in 1..len :
             LET t == window + (k - 1) * step
             IN  /\ chart.dates[k] = RouterDates(n)[t + 1]
                 /\ chart.actual_returns[k] = RouterReturns(n)[chart.dates[k]]
                 /\ chart.historical_var[k] = Cell([method |-> "historical", t |-> t])
                 /\ chart.parametric_var[k] = Cell([method |-> "parametric", t |-> t])
                 /\ chart.garch_var[k] = Cell([method |-> "garch", t |-> t])

\* C21: every date array of a report has the length of its numeric array and
\* holds at element k the input date of the observation behind element k of
\* the numeric array: the GARCH conditional volatilities, the regime history
\* (also trimmed to 252 points) and the backtest chart (also subsampled).
C21_DatesAligned ==
    /\ (qEndpoint = "garch" /\ qResp # None /\ qResp.status = 200) =>
         LET res == qResp.result
             n == qRows - 1
             len == Len(res.conditional_vol)
         IN  /\ Len(res.dates) = len
             /\ \A k \in 1..len :
                  /\ res.dates[k] = RouterDates(n)[n - len + k]
                  /\ res.conditional_vol[k] = AnnualizeVol(CondVolAt(res.dates[k]))
    /\ RegimeAnswered =>
         LET res == qResp.result
             full == Untrimmed
             len == Len(res.states)
         IN  /\ Len(res.dates) = len
             /\ Len(res.state_probs) = len
             /\ \A k \in 1..len :
                  /\ res.dates[k] = RouterDates(qRows - 1)[qRows - 1 - len + k]
                  /\ res.states[k] = full.states[res.dates[k]]
                  /\ res.state_probs[k] = full.state_probs[res.dates[k]]
    /\ ChartAnswered => ChartAligned(qResp.body.chart, qRows - 1, qWindow)
    /\ (fBacktest # None /\ ~fBacktest.raised) =>
         ChartAligned(fBacktest.chart, fRows - 1, BtWindow)
    /\ (fResp # None /\ fResp.status = 200 /\ "dates" \in DOMAIN fResp.garch) =>
         fResp.garch.dates = fResp.garch.conditional_vol

\* a chart subsampled with step 2
C21_Witness ==
    /\ ChartAnswered
    /\ Len(qResp.body.series.actual_returns) >= 2 * ChartPoints
    /\ qResp.body.chart.dates[2] = qWindow + 3
    /\ Len(qResp.body.chart.dates) = ChartPoints

\* C27: a backtest a router starts never meets the length error of
\* compute_var_series, gets four arrays of length n - window with every
\* position set, and gives every run_backtest at least 50 pairs.
BacktestGood(body, n, window) ==
    /\ ~body.raised
    /\ Len(body.series.actual_returns) = n - window
    /\ \A m \in Methods :
         /\ Len(MethodVar(body.series, m)) = n - window
         /\ \A k \in 1..(n - window) :
              ~MethodVar(body.series, m)[k].nan /\ ~body.series.actual_returns[k].nan
         /\ body.pairs[m] >= BacktestExtraObs
StartedBacktest ==
    /\ qEndpoint = "var_backtest"
    /\ qResp # None
    /\ qRows >= MinRows
    /\ qRows - 1 >= qWindow + BacktestExtraObs
C27_BacktestHasEnoughData ==
    /\ StartedBacktest =>
         /\ qResp.status = 200
         /\ BacktestGood(qResp.body, qRows - 1, qWindow)
    /\ (qEndpoint = "var_backtest" /\ qResp # None /\ ~StartedBacktest) =>
         /\ qResp.status = 404
         /\ qResp.detail # "Need at least window + 20 observations"
    /\ fBacktest # None =>
         /\ fRows - 1 >= BacktestMinObs
         /\ BacktestGood(fBacktest, fRows - 1, BtWindow)

\* a backtest on exactly window + 50 returns
C27_Witness ==
    /\ StartedBacktest
    /\ qRows - 1 = qWindow + BacktestExtraObs
    /\ qResp.status = 200
    /\ qResp.body.pairs["garch"] = BacktestExtraObs

(***************************************************************************)
(* one analysis: the components in any order                               *)
(***************************************************************************)
\* what the components are given
AnalysisInputs ==
    <<vReturns, vLevels, vWindow, vFit, sReturns, sConf, sWindow,
      bReturns, bVarSeries, bConf, jReturns, jVolumes, jThreshold, jFloor, jWindow,
      gLen, gHorizon, gDist, gFit, rK, rReturns, rHmm, rHmmOk, rGarchOk>>
InputsKept == AnalysisInputs' = AnalysisInputs
\* what a component has reported is what it reports for its own input,
\* whichever of the other components have run
OwnResults ==
    /\ vResult.done =>
         LET r == compute_var_result(vReturns, vLevels, vWindow, vFit)
         IN  vResult = [done |-> TRUE, raised |-> r.raised, value |-> r.value]
    /\ bResult.done => bResult = run_backtest_result(bReturns, bVarSeries, bConf)
    /\ jResult.done =>
         jResult = detect_jumps_result(jReturns, jVolumes, jThreshold, jWindow, jFloor)
    /\ gResult.done => gResult = fit_garch_result(gLen, gHorizon, gDist, gFit)
    /\ rRegime.done => rRegime = fit_regime_model_result(rReturns, rK, rHmmOk, rHmm)
    /\ rMsgarch.done =>
         rMsgarch = fit_msgarch_result(rReturns, rK, rHmmOk, rHmm,
                        [i \in States(rK) |->
                            rGarchOk[CHOOSE u \in States(rK) :
                                        CanonOf(rK, rVol, rPerm, u) = i]])
    /\ \A t \in StepsDone : sHist[t] = SeriesHistAt(t) /\ sParam[t] = SeriesParamAt(t)
    /\ sOut.status = "returned" =>
         sOut.actual_returns = SubSeq(sReturns, sWindow + 1, Len(sReturns))

\* C22: no component changes the returns, dates or volumes it is given, and
\* in every order and interleaving of the components of one analysis each
\* component reports what it reports for that input on its own.
C22_PureComponents == [][InputsKept]_vars /\ []OwnResults

\* every component has reported, the HMM-based two on the same return vector
C22_Witness ==
    /\ vResult.done /\ bResult.done /\ jResult.done /\ gResult.done
    /\ rRegime.done /\ rMsgarch.done
    /\ sOut.status = "returned"
    /\ rMsgarch.states = rRegime.states

====
